---- MODULE Spec2Model ----
(***************************************************************************)
(* Model of CLAI: the canonical Agent (agents/base.py), the Orchestrator   *)
(* with its workflow engine (orchestrator.py) and the sandboxed file store *)
(* (mcp_filesystem.py).                                                    *)
(*                                                                         *)
(* Text is modelled as a sequence of tokens (a token is a TLA+ string):    *)
(* str.replace, concatenation and the f-strings of the source are computed *)
(* on these sequences.                                                     *)
(***************************************************************************)
EXTENDS Integers, Sequences, FiniteSets, TLC

VARIABLES
    \* ---- one Agent used on its own (agents/base.py) ----
    agent,        \* the BaseAgent object: its fields
    okCalls,      \* history of the run: successful chat calls since the last clear
    chats,        \* history of the run: number of chat calls made so far
    last,         \* history of the run: what the last operation on the Agent did
    \* ---- template substitution on its own (orchestrator.py:273-277) ----
    tpl,          \* instruction, context and the substituted prompt
    \* ---- the Orchestrator (orchestrator.py) ----
    agents,       \* Orchestrator._agents: role -> BaseAgent, None while not created
    workflows,    \* Orchestrator._workflows: name -> list of WorkflowStep
    run,          \* the run_workflow or consult_team call in progress: its position and locals
    result,       \* what the last run_workflow or consult_team call returned, None while it runs
    wire,         \* history of the run: provider calls and replies of the last operation
    sends,        \* history of the run: number of provider calls made so far
    calls,        \* history of the run: number of ask and run_workflow calls so far
    lastOp,       \* history of the run: what the last step of the Orchestrator did
    roleLog,      \* history of the run, per role: Agents constructed, whether a call
                  \* needed the role, successful asks since the history was cleared
    \* ---- the file store (mcp_filesystem.py) ----
    fs,           \* the file system: absolute path -> directory or file with content
    fsOps,        \* history of the run: number of changing operations called so far
    lastFs,       \* history of the run: the last operation, its result and its I/O
    \* ---- one Agent of a provider (agents/claude_agent.py, gpt_agent.py, gemini_agent.py) ----
    adapter,      \* the ClaudeAgent, GPTAgent or GeminiAgent object: its fields
    adOps,        \* history of the run: number of operations called on it so far
    lastAd,       \* history of the run: the last operation, what it transmitted and returned
    \* ---- one Agent called from two threads (agents/base.py) ----
    shared,       \* the Agent object both threads call chat on: its fields
    threads,      \* position of each thread inside chat, with the locals of its call
    started,      \* history of the run: number of chat calls entered so far
    overlapped    \* history of the run: a chat call was entered while another was running

agentVars == <<agent, okCalls, chats, last>>
tplVars == <<tpl>>
orchVars == <<agents, workflows, run, result, wire, sends, calls, lastOp, roleLog>>
fsVars == <<fs, fsOps, lastFs>>
adVars == <<adapter, adOps, lastAd>>
concVars == <<shared, threads, started, overlapped>>
vars == <<agent, okCalls, chats, last, tpl,
          agents, workflows, run, result, wire, sends, calls, lastOp, roleLog,
          fs, fsOps, lastFs, adapter, adOps, lastAd,
          shared, threads, started, overlapped>>

None == "None"

(***************************************************************************)
(* Bounds of the model.                                                    *)
(***************************************************************************)
MaxChats == 3          \* chat calls made on the single Agent
MaxInstrLen == 5       \* tokens of an instruction template
MaxSends == 6          \* provider calls made through one Orchestrator
MaxCalls == 1          \* ask, run_workflow and consult_team calls made on one Orchestrator
MaxSegs == 1           \* segments of a path argument of the file store
MaxFsOps == 1          \* changing operations called on the file store

(***************************************************************************)
(* agents/base.py: MessageRole, Message, AgentResponse                     *)
(***************************************************************************)
MessageRole == {"system", "user", "assistant"}

Message(role, content) == [role |-> role, content |-> content]

AgentResponse(content) == [content |-> content]

\* what a caller may type and what a provider may answer
UserTexts == {<<"t1">>, <<"t2">>}
Contents == {<<"r1">>, <<>>}
\* failures of the provider client (network, auth, malformed reply)
Errors == {"NetworkError", "AuthError"}

\* outcome of one call into the provider: a reply or a raised error
Replies == [ok : {TRUE}, content : Contents] \cup [ok : {FALSE}, error : Errors]

(***************************************************************************)
(* agents/base.py: BaseAgent                                               *)
(***************************************************************************)
\* BaseAgent.__init__
BaseAgent(model, system_prompt, max_tokens, temperature) ==
    [model |-> model,
     system_prompt |-> system_prompt,
     max_tokens |-> max_tokens,
     temperature |-> temperature,
     conversation_history |-> <<>>,
     client |-> None]

\* chat, lines 143-152: the message list handed to _send_request
BuildMessagesIgnoringFlag(a, user_message, include_history) ==
    a.conversation_history \o <<Message("user", user_message)>>

BuildMessages(a, user_message, include_history) ==
    (IF include_history THEN a.conversation_history ELSE <<>>)
        \o <<Message("user", user_message)>>

\* chat, lines 157-161: the two entries appended after a reply
AppendTurnOnlyAssistant(history, user_message, response) ==
    history \o <<Message("assistant", response.content)>>

AppendTurn(history, user_message, response) ==
    history \o <<Message("user", user_message),
                 Message("assistant", response.content)>>

\* BaseAgent.chat as a function of the Agent, the arguments and what the
\* provider does: initErr is the error _initialize_client raises (None when
\* it succeeds), reply is the outcome of _send_request.
\* The result holds the Agent after the call, the error raised to the caller
\* (None when chat returns), the response returned, the message list sent
\* and how often _initialize_client and _send_request were invoked.
\*
\* chat, lines 139-155: up to the moment the request is on its way
chat_beginInitializingAgain(a, user_message, include_history, initErr) ==
    LET a1 == IF initErr = None THEN [a EXCEPT !.client = "client"] ELSE a
    IN  IF initErr # None
        THEN [agent |-> a, raised |-> initErr, sent |-> <<>>, sends |-> 0, inits |-> 1]
        ELSE [agent |-> a1, raised |-> None,
              sent |-> BuildMessages(a1, user_message, include_history),
              sends |-> 1, inits |-> 1]

chat_begin(a, user_message, include_history, initErr) ==
    LET needInit == a.client = None
        a1 == IF needInit /\ initErr = None
              THEN [a EXCEPT !.client = "client"] ELSE a
    IN  IF needInit /\ initErr # None
        THEN [agent |-> a, raised |-> initErr, sent |-> <<>>, sends |-> 0, inits |-> 1]
        ELSE [agent |-> a1, raised |-> None,
              sent |-> BuildMessages(a1, user_message, include_history),
              sends |-> 1, inits |-> IF needInit THEN 1 ELSE 0]

\* chat, lines 155-163: from the outcome of _send_request to the return
chat_endKeepingUserMessage(a, user_message, reply) ==
    IF reply.ok
    THEN [agent |-> [a EXCEPT !.conversation_history =
                        AppendTurn(@, user_message, AgentResponse(reply.content))],
          raised |-> None, response |-> AgentResponse(reply.content)]
    ELSE [agent |-> [a EXCEPT !.conversation_history =
                        Append(@, Message("user", user_message))],
          raised |-> reply.error, response |-> None]

chat_end(a, user_message, reply) ==
    IF reply.ok
    THEN [agent |-> [a EXCEPT !.conversation_history =
                        AppendTurn(@, user_message, AgentResponse(reply.content))],
          raised |-> None, response |-> AgentResponse(reply.content)]
    ELSE [agent |-> a, raised |-> reply.error, response |-> None]

BaseAgent_chat(a, user_message, include_history, initErr, reply) ==
    LET b == chat_begin(a, user_message, include_history, initErr)
        e == chat_end(b.agent, user_message, reply)
    IN  IF b.raised # None
        THEN [agent |-> b.agent, raised |-> b.raised, response |-> None,
              sent |-> b.sent, sends |-> b.sends, inits |-> b.inits]
        ELSE [agent |-> e.agent, raised |-> e.raised, response |-> e.response,
              sent |-> b.sent, sends |-> b.sends, inits |-> b.inits]

\* BaseAgent.clear_history
BaseAgent_clear_historyDroppingClient(a) ==
    [a EXCEPT !.conversation_history = <<>>, !.client = None]

BaseAgent_clear_history(a) == [a EXCEPT !.conversation_history = <<>>]

\* BaseAgent.set_system_prompt
BaseAgent_set_system_prompt(a, prompt) == [a EXCEPT !.system_prompt = prompt]

SystemPrompts == {"", "sp1", "sp2"}

(***************************************************************************)
(* Template substitution, orchestrator.py:273-277                          *)
(***************************************************************************)
\* str.replace(old, new) for a non-empty old: the occurrences of old are
\* found from the left, without overlap, and the text put in is not scanned
RECURSIVE str_replace(_, _, _)
str_replace(s, old, new) ==
    IF Len(s) < Len(old) THEN s
    ELSE IF SubSeq(s, 1, Len(old)) = old
         THEN new \o str_replace(SubSeq(s, Len(old) + 1, Len(s)), old, new)
         ELSE <<Head(s)>> \o str_replace(Tail(s), old, new)

\* f"{{{key}}}"
Placeholder(key) == <<"{">> \o key \o <<"}">>

\* for key, value in context.items(): prompt = prompt.replace(f"{{{key}}}", value)
\* context is the dict as the sequence of its items in insertion order
RECURSIVE SubstituteContext(_, _)
SubstituteContext(prompt, items) ==
    IF items = <<>> THEN prompt
    ELSE SubstituteContext(str_replace(prompt, Placeholder(items[1].key), items[1].value),
                           Tail(items))

\* dict lookup on the sequence of items
HasKey(items, key) == \E i \in 1..Len(items) : items[i].key = key
Lookup(items, key) == items[CHOOSE i \in 1..Len(items) : items[i].key = key].value

TplIdle == [instruction |-> <<>>, context |-> <<>>, prompt |-> <<>>, done |-> FALSE]

(***************************************************************************)
(* agents/factory.py, roles/*.py, config/settings.py                       *)
(***************************************************************************)
Role == {"senior_dev", "coder", "coder_2", "qa", "ba", "reviewer"}

ROLE_PROVIDERS ==
    [r \in Role |-> CASE r \in {"senior_dev", "coder", "reviewer"} -> "anthropic"
                      [] r \in {"coder_2", "ba"} -> "google"
                      [] r = "qa" -> "openai"]

\* model_map of create_by_role with the defaults of Settings
model_map ==
    [r \in Role |-> CASE r \in {"senior_dev", "reviewer"} -> "claude-sonnet-4-20250514"
                      [] r = "coder" -> "claude-sonnet-4-5-20250514"
                      [] r = "coder_2" -> "gemini-2.0-flash"
                      [] r = "qa" -> "gpt-4o"
                      [] r = "ba" -> "gemini-1.5-pro"]

\* RoleConfig of each role: system prompt (opaque text), max_tokens and
\* temperature (in tenths)
get_role_config ==
    [r \in Role |->
        [system_prompt |-> <<"system prompt of ", r>>,
         max_tokens |-> CASE r \in {"senior_dev", "coder_2"} -> 8192
                          [] r \in {"coder", "qa", "ba"} -> 4096
                          [] r = "reviewer" -> 2048,
         temperature |-> CASE r \in {"senior_dev", "reviewer"} -> 5
                           [] r \in {"coder", "coder_2"} -> 6
                           [] r = "qa" -> 4
                           [] r = "ba" -> 7]]

\* AgentFactory.create_by_role(role) with no override
create_by_role(role) ==
    BaseAgent(model_map[role],
              get_role_config[role].system_prompt,
              get_role_config[role].max_tokens,
              get_role_config[role].temperature)

(***************************************************************************)
(* orchestrator.py: WorkflowStep, WorkflowResult, the dict of outputs      *)
(***************************************************************************)
WorkflowStatus == {"pending", "running", "completed", "failed"}

\* transform is None or a callable of the caller; the callables of the model:
\*   "keep"    lambda d: d["prompt"]
\*   "rewrite" lambda d: "rewritten"
\*   "raises"  a callable that raises TransformError
WorkflowStep(role, instruction, depends_on, transform) ==
    [role |-> role, instruction |-> instruction,
     depends_on |-> depends_on, transform |-> transform]

WorkflowResult(status, steps_completed, outputs, errors) ==
    [status |-> status, steps_completed |-> steps_completed,
     outputs |-> outputs, errors |-> errors]

\* str(i) of a step index
Str(i) == CASE i = 0 -> "0" [] i = 1 -> "1" [] i = 2 -> "2" [] i = 3 -> "3"
            [] i = 4 -> "4" [] i = 5 -> "5" [] i = 6 -> "6" [] i = 7 -> "7"
            [] i = 8 -> "8" [] i = 9 -> "9"

\* f"step_{i}_{step.role.value}", i counted from 0
StepNameWithoutIndex(i, role) == <<"step_", "_", role>>

StepName(i, role) == <<"step_", Str(i), "_", role>>

\* outputs[key] = value on a dict kept as the sequence of its items: a new key
\* goes to the end, a known key keeps its place
DictSet(items, key, value) ==
    IF HasKey(items, key)
    THEN [i \in 1..Len(items) |->
            IF items[i].key = key THEN [key |-> key, value |-> value] ELSE items[i]]
    ELSE Append(items, [key |-> key, value |-> value])

(***************************************************************************)
(* orchestrator.py: run_workflow, the prompt of one step (lines 272-289)   *)
(***************************************************************************)
\* lines 280-285: the blocks of the steps named in depends_on
RECURSIVE DepBlocksInOutputOrder(_, _)
DepBlocksInOutputOrder(depends_on, outputs) ==
    IF outputs = <<>> THEN <<>>
    ELSE (IF \E j \in 1..Len(depends_on) : depends_on[j] = outputs[1].key
          THEN <<"\n[">> \o outputs[1].key \o <<"]:\n">>
                  \o outputs[1].value.content \o <<"\n">>
          ELSE <<>>)
         \o DepBlocksInOutputOrder(depends_on, Tail(outputs))

RECURSIVE DepBlocks(_, _)
DepBlocks(depends_on, outputs) ==
    IF depends_on = <<>> THEN <<>>
    ELSE (IF HasKey(outputs, Head(depends_on))
          THEN <<"\n[">> \o Head(depends_on) \o <<"]:\n">>
                  \o Lookup(outputs, Head(depends_on)).content \o <<"\n">>
          ELSE <<>>)
         \o DepBlocks(Tail(depends_on), outputs)

DepContext(depends_on, outputs) ==
    IF depends_on # <<>>
    THEN <<"\n\n---\nPrevious outputs:\n">> \o DepBlocks(depends_on, outputs)
    ELSE <<>>

\* line 289: step.transform({"prompt": prompt, **context}); the items of
\* context come last in the dict, so a key "prompt" of context wins
TransformArg(prompt, context) ==
    IF HasKey(context, <<"prompt">>) THEN Lookup(context, <<"prompt">>) ELSE prompt

\* lines 273-289: the prompt of a step, or the error raised on the way
AssemblePrompt(step, context, outputs) ==
    LET substituted == SubstituteContext(step.instruction, context)
        prompt == substituted \o DepContext(step.depends_on, outputs)
    IN  CASE step.transform = None -> [raised |-> None, prompt |-> prompt]
          [] step.transform = "keep" ->
                [raised |-> None, prompt |-> TransformArg(prompt, context)]
          [] step.transform = "rewrite" ->
                [raised |-> None, prompt |-> <<"rewritten">>]
          [] step.transform = "raises" ->
                [raised |-> "TransformError", prompt |-> <<>>]

\* lines 254-258: the result for a name that is not registered
UnknownWorkflowResultAsEmptyRun(workflow_name) ==
    WorkflowResult("completed", 0, <<>>, <<>>)

UnknownWorkflowResult(workflow_name) ==
    WorkflowResult("failed", 0, <<>>, << <<"Unknown workflow: ", workflow_name>> >>)

\* lines 298-306: the result when step i raised e
StepFailedResultCountingFailedStep(i, step_name, outputs, e) ==
    WorkflowResult("failed", i + 1, outputs,
                   << <<"Step ">> \o step_name \o <<" failed: ", e>> >>)

StepFailedResult(i, step_name, outputs, e) ==
    WorkflowResult("failed", i, outputs,
                   << <<"Step ">> \o step_name \o <<" failed: ", e>> >>)

\* lines 313-318: the result when the loop ran to its end
CompletedResultLeftRunning(steps, outputs) ==
    WorkflowResult("running", Len(steps), outputs, <<>>)

CompletedResult(steps, outputs) ==
    WorkflowResult("completed", Len(steps), outputs, <<>>)

\* _register_default_workflows
DefaultWorkflows ==
    [n \in {"feature", "review", "bugfix", "architecture"} |->
      CASE n = "feature" ->
            <<WorkflowStep("ba", <<"Analyze this feature request:\n\n", "{", "requirement", "}">>,
                           <<>>, None),
              WorkflowStep("senior_dev", <<"Design the architecture.">>,
                           <<<<"step_", "0", "_", "ba">>>>, None),
              WorkflowStep("coder", <<"Implement the feature.">>,
                           <<<<"step_", "0", "_", "ba">>, <<"step_", "1", "_", "senior_dev">>>>, None),
              WorkflowStep("qa", <<"Review the implementation.">>,
                           <<<<"step_", "2", "_", "coder">>>>, None)>>
        [] n = "review" ->
            <<WorkflowStep("reviewer", <<"Review this code:\n\n", "{", "code", "}">>,
                           <<>>, None),
              WorkflowStep("senior_dev", <<"Suggest how to refactor.">>,
                           <<<<"step_", "0", "_", "reviewer">>>>, None)>>
        [] n = "bugfix" ->
            <<WorkflowStep("qa", <<"Analyze this bug report:\n\n", "{", "bug_description", "}",
                                   "\n\nCode:\n", "{", "code", "}">>,
                           <<>>, None),
              WorkflowStep("senior_dev", <<"Plan the fix approach.">>,
                           <<<<"step_", "0", "_", "qa">>>>, None),
              WorkflowStep("coder", <<"Implement the bug fix.">>,
                           <<<<"step_", "0", "_", "qa">>, <<"step_", "1", "_", "senior_dev">>>>, None)>>
        [] n = "architecture" ->
            <<WorkflowStep("ba", <<"List the business requirements for:\n\n",
                                   "{", "project_description", "}">>,
                           <<>>, None),
              WorkflowStep("senior_dev", <<"Design a comprehensive architecture.">>,
                           <<<<"step_", "0", "_", "ba">>>>, None),
              WorkflowStep("qa", <<"Review the architecture.">>,
                           <<<<"step_", "1", "_", "senior_dev">>>>, None)>>]

(***************************************************************************)
(* mcp_filesystem.py: paths.  A path argument is a string, here the        *)
(* sequence of its characters; a location is the sequence of the names     *)
(* from the root of the real file system down, a name being a sequence of  *)
(* characters.  Paths follow pathlib on POSIX: "/" separates, "\" is an    *)
(* ordinary character.  The file system holds no symbolic link: the file   *)
(* store cannot create one.                                                *)
(***************************************************************************)
IsPrefix(s, t) == Len(s) <= Len(t) /\ SubSeq(t, 1, Len(s)) = s

\* settings.workspace_path: an absolute, resolved directory
workspace_root == << <<"a">> >>

Dir == [kind |-> "dir"]
File(content) == [kind |-> "file", content |-> content]

\* str.lstrip(c) for a single character c
RECURSIVE lstrip(_, _)
lstrip(s, c) == IF s # <<>> /\ Head(s) = c THEN lstrip(Tail(s), c) ELSE s

\* the pieces of s between the "/" characters
RECURSIVE split(_, _)
split(s, cur) ==
    IF s = <<>> THEN <<cur>>
    ELSE IF Head(s) = "/" THEN <<cur>> \o split(Tail(s), <<>>)
         ELSE split(Tail(s), Append(cur, Head(s)))

\* PurePosixPath(s).parts without the root: empty pieces and "." are dropped
IsPart(c) == c # <<>> /\ c # <<".">>
Parts(s) == SelectSeq(split(s, <<>>), IsPart)

\* workspace_root / clean_path: an absolute right operand replaces the left
JoinPath(root, s) ==
    IF s # <<>> /\ Head(s) = "/" THEN Parts(s) ELSE root \o Parts(s)

\* Path.resolve() where nothing is a symbolic link: ".." steps to the parent,
\* and the parent of the root is the root
RECURSIVE resolve(_, _)
resolve(parts, acc) ==
    IF parts = <<>> THEN acc
    ELSE IF Head(parts) = <<".", ".">>
         THEN resolve(Tail(parts), IF acc = <<>> THEN <<>> ELSE SubSeq(acc, 1, Len(acc) - 1))
         ELSE resolve(Tail(parts), Append(acc, Head(parts)))

\* FileSystemTools._resolve_path: the location, or raised when relative_to
\* finds it not under the workspace root
resolve_pathCheckedBeforeResolve(relative_path) ==
    LET clean_path == lstrip(lstrip(relative_path, "/"), "\\")
        joined == JoinPath(workspace_root, clean_path)
    IN  [raised |-> ~IsPrefix(workspace_root, joined),
         path |-> resolve(joined, <<>>)]

resolve_path(relative_path) ==
    LET clean_path == lstrip(lstrip(relative_path, "/"), "\\")
        full_path == resolve(JoinPath(workspace_root, clean_path), <<>>)
    IN  [raised |-> ~IsPrefix(workspace_root, full_path),
         path |-> full_path]

\* f"Path '{relative_path}' escapes workspace sandbox"
EscapeMessage(relative_path) ==
    <<"Path '">> \o relative_path \o <<"' escapes workspace sandbox">>

(***************************************************************************)
(* mcp_filesystem.py: what pathlib, open, shutil and os.walk do to the     *)
(* file system f.  Each gives the error raised (None when it succeeds),    *)
(* the file system afterwards and the locations it read, listed, wrote,    *)
(* created or deleted.                                                     *)
(***************************************************************************)
Parent(p) == SubSeq(p, 1, Len(p) - 1)
Exists(f, p) == p \in DOMAIN f
IsDirAt(f, p) == p \in DOMAIN f /\ f[p].kind = "dir"
IsFileAt(f, p) == p \in DOMAIN f /\ f[p].kind = "file"
Under(f, p) == {q \in DOMAIN f : IsPrefix(p, q)}
Children(f, p) == {q \in DOMAIN f : Len(q) = Len(p) + 1 /\ IsPrefix(p, q)}
Touch(kind, paths) == {[io |-> kind, path |-> q] : q \in paths}

Done(f, touched) == [raised |-> None, fs |-> f, touched |-> touched]
Raise(f, e) == [raised |-> e, fs |-> f, touched |-> {}]

\* Path.mkdir(parents=True, exist_ok=exist_ok)
mkdir(f, p, exist_ok) ==
    IF Exists(f, p)
    THEN IF exist_ok /\ IsDirAt(f, p) THEN Done(f, {}) ELSE Raise(f, "FileExistsError")
    ELSE IF \E k \in 0..(Len(p) - 1) : IsFileAt(f, SubSeq(p, 1, k))
    THEN Raise(f, "NotADirectoryError")
    ELSE LET missing == {SubSeq(p, 1, k) : k \in 1..Len(p)} \ DOMAIN f
         IN  Done([q \in missing |-> Dir] @@ f, Touch("create", missing))

\* Path.write_text(content) and open(p, "a").write(content)
write(f, p, content, mode) ==
    IF IsDirAt(f, p) THEN Raise(f, "IsADirectoryError")
    ELSE IF \E k \in 0..(Len(p) - 1) : IsFileAt(f, SubSeq(p, 1, k))
    THEN Raise(f, "NotADirectoryError")
    ELSE IF ~Exists(f, Parent(p)) THEN Raise(f, "FileNotFoundError")
    ELSE LET old == IF mode = "a" /\ Exists(f, p) THEN f[p].content ELSE <<>>
         IN  Done((p :> File(old \o content)) @@ f,
                  Touch(IF Exists(f, p) THEN "write" ELSE "create", {p}))

\* shutil.rmtree(p) of a directory, Path.unlink() of a file
remove(f, p) ==
    Done([q \in DOMAIN f \ Under(f, p) |-> f[q]], Touch("delete", Under(f, p)))

\* a name that starts with "."
IsHidden(name) == name # <<>> /\ Head(name) = "."

\* the directories os.walk(top) visits when the hidden ones are pruned
Walked(f, top) ==
    IF ~IsDirAt(f, top) THEN {}
    ELSE {d \in Under(f, top) :
            /\ f[d].kind = "dir"
            /\ \A k \in (Len(top) + 1)..Len(d) : ~IsHidden(d[k])}

\* fnmatch.fnmatch(name, pattern) for the patterns "*" and a plain name
fnmatch(name, pattern) == pattern = <<"*">> \/ pattern = name

\* item.relative_to(self.workspace_root)
relative_to_root(q) == SubSeq(q, Len(workspace_root) + 1, Len(q))

(***************************************************************************)
(* mcp_filesystem.py: the operations of FileSystemTools.  Each gives the   *)
(* result returned, the file system afterwards and the I/O done.           *)
(***************************************************************************)
OperationResult(success, message, data) ==
    [success |-> success, message |-> message, data |-> data]

Outcome(f, res, touched) == [fs |-> f, result |-> res, touched |-> touched]
\* except Exception as e: return OperationResult(success=False, message=str(e))
Failed(f, message, touched) == Outcome(f, OperationResult(FALSE, message, None), touched)

\* _apply_basic_template, _apply_python_template, _apply_node_template: the
\* entries a template puts into the new directory, with the content of files
TemplateEntries(template, name) ==
    LET basic == (<< <<"README.md">> >> :> File(<<"# ">> \o name \o <<"\n\nProject created by CLAI.\n">>))
                 @@ (<< <<".", "gitignore">> >> :> File(<<"# Created by CLAI\n">>))
        python == (<< <<".", "gitignore">> >> :> File(<<"# Python\n">>))
                  @@ (<< <<"src">> >> :> Dir)
                  @@ (<< <<"src">>, <<"__init__.py">> >> :> File(<<"\"\"\"">> \o name \o <<" package.\"\"\"\n">>))
                  @@ (<< <<"src">>, <<"main.py">> >> :> File(<<"main">>))
                  @@ (<< <<"tests">> >> :> Dir)
                  @@ (<< <<"tests">>, <<"__init__.py">> >> :> File(<<>>))
                  @@ (<< <<"tests">>, <<"test_main.py">> >> :> File(<<"test">>))
                  @@ (<< <<"requirements.txt">> >> :> File(<<"# Dependencies\n">>))
                  @@ basic
        node == (<< <<".", "gitignore">> >> :> File(<<"# Node\n">>))
                @@ (<< <<"package.json">> >> :> File(<<"{\"name\": \"">> \o name \o <<"\"}">>))
                @@ (<< <<"src">> >> :> Dir)
                @@ (<< <<"src">>, <<"index.js">> >> :> File(<<"index">>))
                @@ basic
    IN  CASE template = "python" -> python
          [] template = "node" -> node
          [] template = "basic" -> basic
          [] OTHER -> <<>>

create_project(f, project_name, template) ==
    LET r == resolve_path(project_name)
        m == mkdir(f, r.path, FALSE)
        entries == TemplateEntries(template, project_name)
        filled == [q \in {r.path \o e : e \in DOMAIN entries} |->
                      entries[SubSeq(q, Len(r.path) + 1, Len(q))]] @@ m.fs
    IN  IF r.raised THEN Failed(f, EscapeMessage(project_name), {})
        ELSE IF Exists(f, r.path)
        THEN Failed(f, <<"Project '">> \o project_name \o <<"' already exists">>, {})
        ELSE IF m.raised # None THEN Failed(f, <<m.raised>>, {})
        ELSE Outcome(filled,
                     OperationResult(TRUE, <<"Created project '">> \o project_name, r.path),
                     m.touched \cup Touch("create", {r.path \o e : e \in DOMAIN entries}))

delete_project(f, project_name) ==
    LET r == resolve_path(project_name)
        d == remove(f, r.path)
    IN  IF r.raised THEN Failed(f, EscapeMessage(project_name), {})
        ELSE IF ~Exists(f, r.path)
        THEN Failed(f, <<"Project '">> \o project_name \o <<"' not found">>, {})
        ELSE IF ~IsDirAt(f, r.path)
        THEN Failed(f, <<"'">> \o project_name \o <<"' is not a project directory">>, {})
        ELSE Outcome(d.fs, OperationResult(TRUE, <<"Deleted project '">> \o project_name, None),
                     d.touched)

read_file(f, file_path) ==
    LET r == resolve_path(file_path)
    IN  IF r.raised THEN Failed(f, EscapeMessage(file_path), {})
        ELSE IF ~Exists(f, r.path) THEN Failed(f, <<"File not found: ">> \o file_path, {})
        ELSE IF ~IsFileAt(f, r.path) THEN Failed(f, <<"Not a file: ">> \o file_path, {})
        ELSE Outcome(f, OperationResult(TRUE, <<"Read from ">> \o file_path, f[r.path].content),
                     Touch("read", {r.path}))

write_file(f, file_path, content) ==
    LET r == resolve_path(file_path)
        m == mkdir(f, Parent(r.path), TRUE)
        w == write(m.fs, r.path, content, "w")
    IN  IF r.raised THEN Failed(f, EscapeMessage(file_path), {})
        ELSE IF m.raised # None THEN Failed(f, <<m.raised>>, {})
        ELSE IF w.raised # None THEN Failed(m.fs, <<w.raised>>, m.touched)
        ELSE Outcome(w.fs, OperationResult(TRUE, <<"Wrote to ">> \o file_path, r.path),
                     m.touched \cup w.touched)

append_file(f, file_path, content) ==
    LET r == resolve_path(file_path)
        w == write(f, r.path, content, "a")
    IN  IF r.raised THEN Failed(f, EscapeMessage(file_path), {})
        ELSE IF w.raised # None THEN Failed(f, <<w.raised>>, {})
        ELSE Outcome(w.fs, OperationResult(TRUE, <<"Appended to ">> \o file_path, None),
                     w.touched)

delete_fileForgivingAbsence(f, file_path) ==
    LET r == resolve_path(file_path)
        d == remove(f, r.path)
    IN  IF r.raised THEN Failed(f, EscapeMessage(file_path), {})
        ELSE IF ~Exists(f, r.path)
        THEN Outcome(f, OperationResult(TRUE, <<"Deleted ">> \o file_path, None), {})
        ELSE IF IsDirAt(f, r.path)
        THEN Failed(f, <<"Use delete_project for directories: ">> \o file_path, {})
        ELSE Outcome(d.fs, OperationResult(TRUE, <<"Deleted ">> \o file_path, None), d.touched)

delete_file(f, file_path) ==
    LET r == resolve_path(file_path)
        d == remove(f, r.path)
    IN  IF r.raised THEN Failed(f, EscapeMessage(file_path), {})
        ELSE IF ~Exists(f, r.path) THEN Failed(f, <<"File not found: ">> \o file_path, {})
        ELSE IF IsDirAt(f, r.path)
        THEN Failed(f, <<"Use delete_project for directories: ">> \o file_path, {})
        ELSE Outcome(d.fs, OperationResult(TRUE, <<"Deleted ">> \o file_path, None), d.touched)

\* FileInfo of a location
FileInfo(f, q) ==
    [path |-> relative_to_root(q), name |-> q[Len(q)], is_dir |-> f[q].kind = "dir",
     size |-> IF f[q].kind = "file" THEN Len(f[q].content) ELSE 0]

\* a list returned is kept as the set of its entries
List(entries) == [list |-> entries]

list_directory(f, dir_path) ==
    LET r == resolve_path(dir_path)
    IN  IF r.raised \/ ~IsDirAt(f, r.path) THEN Outcome(f, List({}), {})
        ELSE Outcome(f, List({FileInfo(f, q) : q \in Children(f, r.path)}),
                     Touch("list", {r.path}))

create_directory(f, dir_path) ==
    LET r == resolve_path(dir_path)
        m == mkdir(f, r.path, TRUE)
    IN  IF r.raised THEN Failed(f, EscapeMessage(dir_path), {})
        ELSE IF m.raised # None THEN Failed(f, <<m.raised>>, {})
        ELSE Outcome(m.fs, OperationResult(TRUE, <<"Created directory: ">> \o dir_path, None),
                     m.touched)

\* get_tree and _build_tree: the text returned is kept as the set of the
\* locations it names, each at most max_depth below the start
get_tree(f, dir_path, max_depth) ==
    LET r == resolve_path(dir_path)
        shown == {q \in Under(f, r.path) : Len(q) - Len(r.path) \in 1..max_depth}
        listed == {q \in Under(f, r.path) :
                      f[q].kind = "dir" /\ Len(q) - Len(r.path) < max_depth}
    IN  IF r.raised THEN Outcome(f, [error |-> <<"Error: ">> \o EscapeMessage(dir_path)], {})
        ELSE IF ~IsDirAt(f, r.path)
        THEN Outcome(f, [error |-> <<"Directory not found: ">> \o dir_path], {})
        ELSE Outcome(f, [tree |-> shown], Touch("list", listed))

\* the files os.walk finds under top whose name matches pattern
WalkedFiles(f, top, pattern) ==
    {q \in DOMAIN f : /\ f[q].kind = "file"
                      /\ Parent(q) \in Walked(f, top)
                      /\ fnmatch(q[Len(q)], pattern)}

search_files(f, pattern, dir_path) ==
    LET r == resolve_path(dir_path)
    IN  IF r.raised THEN Outcome(f, List({}), {})
        ELSE Outcome(f, List({relative_to_root(q) : q \in WalkedFiles(f, r.path, pattern)}),
                     Touch("list", Walked(f, r.path)))

\* a line matches when the content holds the term
grep(f, search_term, dir_path, file_pattern) ==
    LET r == resolve_path(dir_path)
        files == WalkedFiles(f, r.path, file_pattern)
    IN  IF r.raised THEN Outcome(f, List({}), {})
        ELSE Outcome(f, List({relative_to_root(q) : q \in
                            {x \in files : \E n \in 1..Len(f[x].content) :
                                              f[x].content[n] = search_term}}),
                     Touch("list", Walked(f, r.path)) \cup Touch("read", files))

\* list_projects: iterdir raises when the workspace root is not there
list_projectsListingFiles(f) ==
    IF ~IsDirAt(f, workspace_root)
    THEN Outcome(f, [raised |-> "FileNotFoundError"], {})
    ELSE Outcome(f, List({q[Len(q)] : q \in {c \in Children(f, workspace_root) :
                                          f[c].kind = "file" /\ ~IsHidden(c[Len(c)])}}),
                 Touch("list", {workspace_root}))

list_projects(f) ==
    IF ~IsDirAt(f, workspace_root)
    THEN Outcome(f, [raised |-> "FileNotFoundError"], {})
    ELSE Outcome(f, List({q[Len(q)] : q \in {c \in Children(f, workspace_root) :
                                          f[c].kind = "dir" /\ ~IsHidden(c[Len(c)])}}),
                 Touch("list", {workspace_root}))

(***************************************************************************)
(* Specification of one Agent: chat, clear_history and set_system_prompt   *)
(* called one after another by a single caller.                            *)
(***************************************************************************)
NoCall == [kind |-> "none"]

RunIdle == [pc |-> "idle"]
NoResult == [status |-> None]
\* a dict with no item
NoAgents == [r \in {} |-> None]

\* a BaseAgent just constructed, nothing called yet
AgentStart ==
    /\ agent = BaseAgent("model", "sp1", 4096, 7)
    /\ okCalls = <<>>
    /\ chats = 0
    /\ last = NoCall

TplStart == tpl = TplIdle

\* Orchestrator.__init__: no Agent, the built-in workflows
OrchStart ==
    /\ agents = NoAgents
    /\ workflows = DefaultWorkflows
    /\ run = RunIdle
    /\ result = NoResult
    /\ wire = <<>>
    /\ sends = 0
    /\ calls = 0
    /\ lastOp = NoCall
    /\ roleLog = [r \in Role |-> [made |-> 0, needed |-> FALSE, turns |-> <<>>]]

\* FileSystemTools.__init__: the workspace root exists and is empty; above it
\* there is the root of the real file system
FsStart ==
    /\ fs = (<<>> :> Dir) @@ (workspace_root :> Dir)
    /\ fsOps = 0
    /\ lastFs = NoCall

\* no Agent of a provider is under observation
AdapterStart ==
    /\ adapter = [provider |-> None]
    /\ adOps = 0
    /\ lastAd = NoCall

\* a BaseAgent just constructed, no thread inside chat
Threads == {1, 2}
ThreadIdle == [pc |-> "idle"]

ConcStart ==
    /\ shared = BaseAgent("model", "sp1", 4096, 7)
    /\ threads = [t \in Threads |-> ThreadIdle]
    /\ started = 0
    /\ overlapped = FALSE

AgentInit == AgentStart /\ TplStart /\ OrchStart /\ FsStart /\ AdapterStart /\ ConcStart

chat(user_message, include_history, initErr, reply) ==
    LET r == BaseAgent_chat(agent, user_message, include_history, initErr, reply)
    IN  /\ chats < MaxChats
        /\ agent' = r.agent
        /\ chats' = chats + 1
        /\ okCalls' = IF (agent.client # None \/ initErr = None) /\ reply.ok
                      THEN Append(okCalls, [text |-> user_message,
                                            content |-> reply.content])
                      ELSE okCalls
        /\ last' = [kind |-> "chat",
                    text |-> user_message,
                    include_history |-> include_history,
                    histBefore |-> agent.conversation_history,
                    adapterError |-> IF agent.client = None /\ initErr # None
                                     THEN initErr
                                     ELSE IF reply.ok THEN None ELSE reply.error,
                    raised |-> r.raised,
                    response |-> r.response,
                    sent |-> r.sent,
                    sends |-> r.sends,
                    inits |-> r.inits]
        /\ UNCHANGED <<tplVars, orchVars, fsVars, adVars, concVars>>

clear_history ==
    /\ agent' = BaseAgent_clear_history(agent)
    /\ okCalls' = <<>>
    /\ last' = [kind |-> "clear_history"]
    /\ UNCHANGED <<chats, tplVars, orchVars, fsVars, adVars, concVars>>

set_system_prompt(prompt) ==
    /\ agent' = BaseAgent_set_system_prompt(agent, prompt)
    /\ last' = [kind |-> "set_system_prompt"]
    /\ UNCHANGED <<okCalls, chats, tplVars, orchVars, fsVars, adVars, concVars>>

AgentNext ==
    \/ \E t \in UserTexts, h \in BOOLEAN, e \in Errors \cup {None}, r \in Replies :
          chat(t, h, e, r)
    \/ clear_history
    \/ \E p \in SystemPrompts : set_system_prompt(p)

SpecAgent == AgentInit /\ [][AgentNext]_vars

(***************************************************************************)
(* Properties of the single Agent                                          *)
(***************************************************************************)
\* C1: after any sequence of chat calls (successful or failing, with or
\* without history) and clear_history calls, conversation_history has two
\* entries per successful chat since the last clear: the user entry with the
\* call's text followed by the assistant entry with that call's response
\* content, in call order, and no entry has the system role.
C1_HistoryIsTwoPerSuccessfulChat ==
    LET h == agent.conversation_history
    IN  /\ Len(h) = 2 * Len(okCalls)
        /\ \A i \in 1..Len(okCalls) :
              /\ h[2 * i - 1] = [role |-> "user", content |-> okCalls[i].text]
              /\ h[2 * i] = [role |-> "assistant", content |-> okCalls[i].content]
        /\ \A i \in 1..Len(h) : h[i].role # "system"

\* two successful chats, then a failing one that left the four entries alone
C1_Witness ==
    /\ Len(okCalls) = 2
    /\ last.kind = "chat"
    /\ last.raised # None
    /\ Len(agent.conversation_history) = 4

\* C3: the message list handed to the adapter is the stored history followed
\* by the new user message when include_history is true and the single new
\* user message when it is false; in the false case the stored history is
\* still there after the call.
C3_RequestIsHistoryPlusUserOrUserAlone ==
    (last.kind = "chat" /\ last.sends > 0) =>
        LET user_msg == [role |-> "user", content |-> last.text]
        IN  /\ last.include_history => last.sent = last.histBefore \o <<user_msg>>
            /\ ~last.include_history =>
                  /\ last.sent = <<user_msg>>
                  /\ IsPrefix(last.histBefore, agent.conversation_history)

\* a chat without history on an Agent that already holds a turn
C3_Witness ==
    /\ last.kind = "chat"
    /\ ~last.include_history
    /\ last.sends = 1
    /\ Len(last.histBefore) >= 2
    /\ last.sent = <<[role |-> "user", content |-> last.text]>>

(***************************************************************************)
(* Specification of the template substitution of run_workflow on its own:  *)
(* any instruction and any context, then the loop of lines 276-277.        *)
(***************************************************************************)
SeqsUpTo(S, n) == UNION {[1..k -> S] : k \in 0..n}

\* the characters an instruction is made of, and the keys and values of a context
TplChars == {"{", "}", "a", "b"}
Instructions == SeqsUpTo(TplChars, MaxInstrLen)
ContextKeys == {<<"a">>, <<"b">>}
ContextValues == {<<"X">>, <<"{", "b", "}">>, <<"{", "a", "}">>}
ContextItems == [key : ContextKeys, value : ContextValues]
\* a dict: its items in insertion order, no key twice
Contexts == {c \in SeqsUpTo(ContextItems, 2) :
                \A i, j \in 1..Len(c) : i # j => c[i].key # c[j].key}

TemplateInit ==
    /\ AgentStart
    /\ OrchStart
    /\ FsStart
    /\ AdapterStart
    /\ ConcStart
    /\ \E instr \in Instructions, c \in Contexts :
          tpl = [instruction |-> instr, context |-> c, prompt |-> <<>>, done |-> FALSE]

substitute ==
    /\ ~tpl.done
    /\ tpl' = [tpl EXCEPT !.prompt = SubstituteContext(tpl.instruction, tpl.context),
                          !.done = TRUE]
    /\ UNCHANGED <<agentVars, orchVars, fsVars, adVars, concVars>>

TemplateNext == substitute

SpecTemplate == TemplateInit /\ [][TemplateNext]_vars

\* the instruction read once from the left: a placeholder of a key of the
\* context gives the value of the key, any other token gives itself, and the
\* values put in are not read again
RECURSIVE SinglePass(_, _)
SinglePass(s, items) ==
    IF s = <<>> THEN <<>>
    ELSE LET hits == {i \in 1..Len(items) : IsPrefix(Placeholder(items[i].key), s)}
         IN  IF hits = {}
             THEN <<Head(s)>> \o SinglePass(Tail(s), items)
             ELSE LET i == CHOOSE i \in hits : TRUE
                  IN  items[i].value
                        \o SinglePass(SubSeq(s, Len(Placeholder(items[i].key)) + 1, Len(s)),
                                      items)

\* C8: the substituted prompt is the instruction with every {key} of a key of
\* the context replaced by the value of the key, in one literal pass: other
\* placeholders stay, and a value that was put in is not substituted again.
C8_SubstitutionIsOneLiteralPass ==
    tpl.done => tpl.prompt = SinglePass(tpl.instruction, tpl.context)

(***************************************************************************)
(* Specification of the Orchestrator: ask, register_workflow, run_workflow *)
(* and clear_context called one after another by a single caller.          *)
(* run_workflow is followed through its loop: each provider call of a step *)
(* is one step of the model and its reply the next.                        *)
(***************************************************************************)
\* d[key] = value on a dict kept as a function
Put(d, key, value) ==
    [k \in DOMAIN d \cup {key} |-> IF k = key THEN value ELSE d[k]]

\* _get_agent, line 163: is an Agent constructed for the role
get_agent_constructsAlways(role) == TRUE

get_agent_constructs(role) == role \notin DOMAIN agents

\* Orchestrator._get_agent
get_agent(role) ==
    IF get_agent_constructs(role) THEN create_by_role(role) ELSE agents[role]

\* the log after _get_agent(role)
Needed(role) ==
    [roleLog EXCEPT ![role].needed = TRUE,
                    ![role].made = @ + IF get_agent_constructs(role) THEN 1 ELSE 0]
\* the log after a provider call for the role was answered or failed
Answered(log, role, text, reply) ==
    IF reply.ok
    THEN [log EXCEPT ![role].turns = Append(@, [text |-> text, content |-> reply.content])]
    ELSE log

\* the step the loop of run_workflow is at: enumerate(steps) counts from 0
StepAtFromEnd(steps, i) == steps[Len(steps) - i]

StepAt(steps, i) == steps[i + 1]

\* what the caller may pass to run_workflow and register_workflow
WorkflowNames == {"feature", "review", "bugfix", "architecture", "custom", "nosuch"}

WorkflowContexts ==
    { <<>>,
      <<[key |-> <<"requirement">>, value |-> <<"X">>],
        [key |-> <<"code">>, value |-> <<"{", "a", "}">>],
        [key |-> <<"a">>, value |-> <<"Y">>],
        [key |-> <<"prompt">>, value |-> <<"P">>]>> }

CustomWorkflows ==
    { <<>>,
      \* two steps that depend on nothing, a third that names the second before
      \* the first, a step that does not exist and itself
      <<WorkflowStep("qa", <<"A ", "{", "a", "}">>, <<>>, None),
        WorkflowStep("ba", <<"B ", "{", "code", "}">>, <<>>, None),
        WorkflowStep("qa", <<"C">>,
                     << <<"step_", "1", "_", "ba">>, <<"step_", "7", "_", "qa">>,
                        <<"step_", "0", "_", "qa">>, <<"step_", "2", "_", "qa">> >>, None)>>,
      \* steps with a transform
      <<WorkflowStep("ba", <<"A">>, <<>>, "keep"),
        WorkflowStep("qa", <<"B">>, << <<"step_", "0", "_", "ba">> >>, "rewrite"),
        WorkflowStep("ba", <<"C">>, << <<"step_", "0", "_", "ba">> >>, "raises")>> }

AskPrompts == {<<"t1">>}
\* outcome of the n-th provider call made through the Orchestrator: a reply
\* whose text differs from call to call, or an error
OrchReplies(n) == {[ok |-> TRUE, content |-> <<"reply ", Str(n)>>],
                   [ok |-> FALSE, error |-> "NetworkError"]}
InitErrors == {None, "AuthError"}

OrchInit == AgentStart /\ TplStart /\ OrchStart /\ FsStart /\ AdapterStart /\ ConcStart

\* Orchestrator.ask(role, prompt, include_history)
ask(role, prompt, include_history, initErr, reply) ==
    LET a == get_agent(role)
        r == BaseAgent_chat(a, prompt, include_history, initErr, reply)
    IN  /\ run.pc = "idle"
        /\ sends < MaxSends
        /\ calls < MaxCalls
        /\ calls' = calls + 1
        /\ agents' = Put(agents, role, r.agent)
        /\ sends' = sends + r.sends
        /\ wire' = IF r.sends = 0 THEN <<>>
                   ELSE IF reply.ok
                   THEN <<[ev |-> "call", role |-> role, messages |-> r.sent],
                          [ev |-> "reply", role |-> role, content |-> reply.content]>>
                   ELSE <<[ev |-> "call", role |-> role, messages |-> r.sent],
                          [ev |-> "error", role |-> role, error |-> reply.error]>>
        /\ lastOp' = [kind |-> "ask",
                      role |-> role,
                      histBefore |-> a.conversation_history,
                      sendError |-> IF r.sends > 0 /\ ~reply.ok THEN reply.error ELSE None,
                      raised |-> r.raised,
                      response |-> r.response]
        /\ UNCHANGED <<workflows, run, result, agentVars, tplVars, fsVars, adVars, concVars>>
        /\ roleLog' = IF r.sends = 0 THEN Needed(role)
                      ELSE Answered(Needed(role), role, prompt, reply)

\* Orchestrator.register_workflow(name, steps)
register_workflow(name, steps) ==
    /\ run.pc = "idle"
    /\ workflows' = Put(workflows, name, steps)
    /\ lastOp' = [kind |-> "register_workflow"]
    /\ UNCHANGED <<agents, run, result, wire, sends, calls, roleLog,
                   agentVars, tplVars, fsVars, adVars, concVars>>

\* Orchestrator.clear_context(role), role = None for all Agents
clear_contextIgnoringRole(role) ==
    /\ run.pc = "idle"
    /\ agents' = [r \in DOMAIN agents |-> BaseAgent_clear_history(agents[r])]
    /\ lastOp' = [kind |-> "clear_context"]
    /\ UNCHANGED <<workflows, run, result, wire, sends, calls,
                   agentVars, tplVars, fsVars, adVars, concVars>>
    /\ roleLog' = [r \in Role |-> [roleLog[r] EXCEPT !.turns = <<>>]]

clear_context(role) ==
    /\ run.pc = "idle"
    /\ agents' = [r \in DOMAIN agents |->
                    IF role = None \/ r = role
                    THEN BaseAgent_clear_history(agents[r]) ELSE agents[r]]
    /\ lastOp' = [kind |-> "clear_context"]
    /\ UNCHANGED <<workflows, run, result, wire, sends, calls,
                   agentVars, tplVars, fsVars, adVars, concVars>>
    /\ roleLog' = [r \in Role |-> IF role = None \/ r = role
                                  THEN [roleLog[r] EXCEPT !.turns = <<>>] ELSE roleLog[r]]

\* run_workflow, lines 253-258: the name is not registered
run_workflow_unknown(workflow_name, context) ==
    /\ run.pc = "idle"
    /\ workflow_name \notin DOMAIN workflows
    /\ calls < MaxCalls
    /\ calls' = calls + 1
    /\ result' = UnknownWorkflowResult(workflow_name)
    /\ wire' = <<>>
    /\ lastOp' = [kind |-> "run_workflow_unknown",
                  agentsBefore |-> agents, sendsBefore |-> sends]
    /\ UNCHANGED <<agents, workflows, run, sends, roleLog,
                   agentVars, tplVars, fsVars, adVars, concVars>>

\* len(agent.conversation_history) of the role's Agent, 0 when there is none
HistoryLen(role) ==
    IF role \in DOMAIN agents THEN Len(agents[role].conversation_history) ELSE 0

\* run_workflow, lines 260-262: the call enters its loop
run_workflow_begin(workflow_name, context) ==
    /\ run.pc = "idle"
    /\ workflow_name \in DOMAIN workflows
    /\ sends + Len(workflows[workflow_name]) <= MaxSends
    /\ calls < MaxCalls
    /\ calls' = calls + 1
    /\ run' = [pc |-> "loop", name |-> workflow_name,
               steps |-> workflows[workflow_name], context |-> context,
               i |-> 0, outputs |-> <<>>, step_name |-> <<>>, prompt |-> <<>>,
               \* history of the run: the length of every role's history at its start
               lenBefore |-> [r \in Role |-> HistoryLen(r)]]
    /\ result' = NoResult
    /\ wire' = <<>>
    /\ lastOp' = [kind |-> "run_workflow_begin"]
    /\ UNCHANGED <<agents, workflows, sends, roleLog, agentVars, tplVars, fsVars, adVars, concVars>>

\* run_workflow, lines 268-295: one turn of the loop up to the provider call
\* of ask -> chat -> _send_request, or to the except clause when the prompt
\* or the client could not be made
run_workflow_step(initErr) ==
    /\ run.pc = "loop"
    /\ run.i < Len(run.steps)
    /\ LET step == StepAt(run.steps, run.i)
           step_name == StepName(run.i, step.role)
           asm == AssemblePrompt(step, run.context, run.outputs)
           a == get_agent(step.role)
           b == chat_begin(a, asm.prompt, FALSE, initErr)
       IN  IF asm.raised # None
           THEN /\ result' = StepFailedResult(run.i, step_name, run.outputs, asm.raised)
                /\ run' = [run EXCEPT !.pc = "idle", !.step_name = step_name]
                /\ lastOp' = [kind |-> "step_failed", role |-> step.role, step |-> run.i,
                              sendError |-> None, raised |-> asm.raised]
                /\ UNCHANGED <<agents, wire, sends>>
           ELSE IF b.raised # None
           THEN /\ agents' = Put(agents, step.role, b.agent)
                /\ result' = StepFailedResult(run.i, step_name, run.outputs, b.raised)
                /\ run' = [run EXCEPT !.pc = "idle", !.step_name = step_name,
                                      !.prompt = asm.prompt]
                /\ lastOp' = [kind |-> "step_failed", role |-> step.role, step |-> run.i,
                              sendError |-> None, raised |-> b.raised]
                /\ UNCHANGED <<wire, sends>>
           ELSE /\ agents' = Put(agents, step.role, b.agent)
                /\ run' = [run EXCEPT !.pc = "call", !.step_name = step_name,
                                      !.prompt = asm.prompt]
                /\ wire' = Append(wire, [ev |-> "call", step |-> run.i, role |-> step.role,
                                         messages |-> b.sent,
                                         depends_on |-> step.depends_on,
                                         transform |-> step.transform,
                                         outputs |-> run.outputs])
                /\ sends' = sends + 1
                /\ lastOp' = [kind |-> "step_call", role |-> step.role, step |-> run.i]
                /\ UNCHANGED result
    /\ UNCHANGED <<workflows, calls, agentVars, tplVars, fsVars, adVars, concVars>>
    /\ roleLog' = IF AssemblePrompt(StepAt(run.steps, run.i), run.context, run.outputs).raised # None
                  THEN roleLog ELSE Needed(StepAt(run.steps, run.i).role)

\* run_workflow, lines 295-306: the provider call of the step returns or raises
run_workflow_reply(reply) ==
    /\ run.pc = "call"
    /\ LET step == StepAt(run.steps, run.i)
           a == agents[step.role]
           e == chat_end(a, run.prompt, reply)
       IN  IF e.raised = None
           THEN /\ agents' = Put(agents, step.role, e.agent)
                /\ run' = [run EXCEPT !.pc = "loop", !.i = @ + 1,
                                      !.outputs = DictSet(@, run.step_name, e.response)]
                /\ wire' = Append(wire, [ev |-> "reply", step |-> run.i, role |-> step.role,
                                         content |-> reply.content])
                /\ lastOp' = [kind |-> "step_ok", role |-> step.role, step |-> run.i]
                /\ UNCHANGED result
           ELSE /\ agents' = Put(agents, step.role, e.agent)
                /\ result' = StepFailedResult(run.i, run.step_name, run.outputs, e.raised)
                /\ run' = [run EXCEPT !.pc = "idle"]
                /\ wire' = Append(wire, [ev |-> "error", step |-> run.i, role |-> step.role,
                                         error |-> reply.error])
                /\ lastOp' = [kind |-> "step_failed", role |-> step.role, step |-> run.i,
                              histBefore |-> a.conversation_history,
                              sendError |-> reply.error, raised |-> e.raised]
    /\ UNCHANGED <<workflows, sends, calls, agentVars, tplVars, fsVars, adVars, concVars>>
    /\ roleLog' = Answered(roleLog, StepAt(run.steps, run.i).role, run.prompt, reply)

\* run_workflow, lines 308-318: the loop is over
run_workflow_return ==
    /\ run.pc = "loop"
    /\ run.i = Len(run.steps)
    /\ result' = CompletedResult(run.steps, run.outputs)
    /\ run' = [run EXCEPT !.pc = "idle"]
    /\ lastOp' = [kind |-> "run_workflow_return"]
    /\ UNCHANGED <<agents, workflows, wire, sends, calls, roleLog,
                   agentVars, tplVars, fsVars, adVars, concVars>>

\* list(Role): the members in the order of their definition
RoleList == <<"senior_dev", "coder", "coder_2", "qa", "ba", "reviewer">>

\* what the caller may pass as roles to consult_team; None is the default
TeamRoles == {None, <<>>, <<"qa", "ba">>, <<"ba", "qa", "ba">>}

\* consult_team, lines 211-214: the call enters its loop
consult_team_begin(prompt, roles) ==
    LET asked == IF roles = None THEN RoleList ELSE roles
    IN  /\ run.pc = "idle"
        /\ sends + Len(asked) <= MaxSends
        /\ calls < MaxCalls
        /\ calls' = calls + 1
        /\ run' = [pc |-> "team_loop", prompt |-> prompt, given |-> roles,
                   roles |-> asked, n |-> 1, results |-> <<>>]
        /\ result' = NoResult
        /\ wire' = <<>>
        /\ lastOp' = [kind |-> "consult_team_begin"]
        /\ UNCHANGED <<agents, workflows, sends, roleLog,
                       agentVars, tplVars, fsVars, adVars, concVars>>

\* consult_team, lines 215-218: self.ask(role, prompt) for the next role, up
\* to its provider call; an error of the client initialization leaves
\* consult_team
consult_team_ask(initErr) ==
    /\ run.pc = "team_loop"
    /\ run.n <= Len(run.roles)
    /\ LET role == run.roles[run.n]
           a == get_agent(role)
           b == chat_begin(a, run.prompt, FALSE, initErr)
       IN  /\ agents' = Put(agents, role, b.agent)
           /\ IF b.raised # None
              THEN /\ run' = [run EXCEPT !.pc = "idle"]
                   /\ lastOp' = [kind |-> "consult_team_failed", role |-> role,
                                 member |-> run.n, sendError |-> None,
                                 raised |-> b.raised]
                   /\ UNCHANGED <<wire, sends>>
              ELSE /\ run' = [run EXCEPT !.pc = "team_call"]
                   /\ wire' = Append(wire, [ev |-> "call", member |-> run.n,
                                            role |-> role, messages |-> b.sent])
                   /\ sends' = sends + 1
                   /\ lastOp' = [kind |-> "consult_team_call", role |-> role,
                                 member |-> run.n]
    /\ UNCHANGED <<workflows, result, calls, agentVars, tplVars, fsVars, adVars, concVars>>
    /\ roleLog' = Needed(run.roles[run.n])

\* consult_team, line 218: the provider call returns and results[role] is
\* set, or it raises and the error leaves consult_team
consult_team_replyGatheringPartial(reply) ==
    /\ run.pc = "team_call"
    /\ LET role == run.roles[run.n]
           e == chat_end(agents[role], run.prompt, reply)
       IN  /\ agents' = Put(agents, role, e.agent)
           /\ run' = [run EXCEPT !.pc = "team_loop", !.n = @ + 1,
                                 !.results = IF e.raised = None
                                             THEN DictSet(@, role, e.response) ELSE @]
           /\ wire' = Append(wire, IF e.raised = None
                                   THEN [ev |-> "reply", member |-> run.n,
                                         role |-> role, content |-> reply.content]
                                   ELSE [ev |-> "error", member |-> run.n,
                                         role |-> role, error |-> reply.error])
           /\ lastOp' = [kind |-> "consult_team_ok", role |-> role, member |-> run.n]
    /\ UNCHANGED <<workflows, result, sends, calls, agentVars, tplVars, fsVars, adVars, concVars>>
    /\ roleLog' = Answered(roleLog, run.roles[run.n], run.prompt, reply)

consult_team_reply(reply) ==
    /\ run.pc = "team_call"
    /\ LET role == run.roles[run.n]
           e == chat_end(agents[role], run.prompt, reply)
       IN  /\ agents' = Put(agents, role, e.agent)
           /\ IF e.raised = None
              THEN /\ run' = [run EXCEPT !.pc = "team_loop", !.n = @ + 1,
                                         !.results = DictSet(@, role, e.response)]
                   /\ wire' = Append(wire, [ev |-> "reply", member |-> run.n,
                                            role |-> role, content |-> reply.content])
                   /\ lastOp' = [kind |-> "consult_team_ok", role |-> role,
                                 member |-> run.n]
              ELSE /\ run' = [run EXCEPT !.pc = "idle"]
                   /\ wire' = Append(wire, [ev |-> "error", member |-> run.n,
                                            role |-> role, error |-> reply.error])
                   /\ lastOp' = [kind |-> "consult_team_failed", role |-> role,
                                 member |-> run.n, sendError |-> reply.error,
                                 raised |-> e.raised]
    /\ UNCHANGED <<workflows, result, sends, calls, agentVars, tplVars, fsVars, adVars, concVars>>
    /\ roleLog' = Answered(roleLog, run.roles[run.n], run.prompt, reply)

\* consult_team, line 220: return results
consult_team_return ==
    /\ run.pc = "team_loop"
    /\ run.n = Len(run.roles) + 1
    /\ result' = [status |-> "returned", results |-> run.results]
    /\ run' = [run EXCEPT !.pc = "idle"]
    /\ lastOp' = [kind |-> "consult_team_return"]
    /\ UNCHANGED <<agents, workflows, wire, sends, calls, roleLog,
                   agentVars, tplVars, fsVars, adVars, concVars>>

OrchNext ==
    \/ \E r \in Role, t \in AskPrompts, h \in BOOLEAN, e \in InitErrors,
          y \in OrchReplies(sends + 1) :
          ask(r, t, h, e, y)
    \/ \E w \in CustomWorkflows : register_workflow("custom", w)
    \/ \E r \in Role \cup {None} : clear_context(r)
    \/ \E n \in WorkflowNames, c \in WorkflowContexts : run_workflow_unknown(n, c)
    \/ \E n \in WorkflowNames, c \in WorkflowContexts : run_workflow_begin(n, c)
    \/ \E e \in InitErrors : run_workflow_step(e)
    \/ \E y \in OrchReplies(sends) : run_workflow_reply(y)
    \/ run_workflow_return
    \/ \E t \in AskPrompts, l \in TeamRoles : consult_team_begin(t, l)
    \/ \E e \in InitErrors : consult_team_ask(e)
    \/ \E y \in OrchReplies(sends) : consult_team_reply(y)
    \/ consult_team_return

SpecOrch == OrchInit /\ [][OrchNext]_vars

(***************************************************************************)
(* Properties of the Orchestrator                                          *)
(***************************************************************************)
IsSuffix(s, t) == Len(s) <= Len(t) /\ SubSeq(t, Len(t) - Len(s) + 1, Len(t)) = s
IsInfix(s, t) == \E k \in 0..(Len(t) - Len(s)) : SubSeq(t, k + 1, k + Len(s)) = s
Count(s, token) == Cardinality({n \in 1..Len(s) : s[n] = token})

\* the events of wire that belong to a step of run_workflow
IsStepEvent(e) == "step" \in DOMAIN e
\* the text of the user message a provider call carries last
PromptOf(e) == e.messages[Len(e.messages)].content
\* the key the outputs of step j (counted from 0) of the run are kept under
KeyOfStep(j) == <<"step_", Str(j), "_", run.steps[j + 1].role>>

\* C2: when _send_request fails, the caller of chat (ask, or the step of
\* run_workflow that asked) gets that very error, the provider was called
\* once for the call, and the history of the Agent is what it was before.
C2_SendFailurePropagatesAndKeepsHistory ==
    (lastOp.kind \in {"ask", "step_failed"} /\ lastOp.sendError # None) =>
        /\ lastOp.raised = lastOp.sendError
        /\ agents[lastOp.role].conversation_history = lastOp.histBefore
        /\ wire[Len(wire)].ev = "error"
        /\ wire[Len(wire) - 1].ev = "call"
        /\ lastOp.kind = "ask" => Len(wire) = 2
        /\ lastOp.kind = "step_failed" =>
              Cardinality({n \in 1..Len(wire) :
                              wire[n].ev = "call" /\ wire[n].step = lastOp.step}) = 1

\* the send of a step fails for an Agent that already holds a turn
C2_Witness ==
    /\ lastOp.kind = "step_failed"
    /\ lastOp.sendError = "NetworkError"
    /\ Len(lastOp.histBefore) = 2
    /\ agents[lastOp.role].conversation_history = lastOp.histBefore

\* C4: when step k (from 0) of a run fails, the run is over with status
\* failed, steps_completed = k, the outputs of steps 0..k-1 and no other, and
\* one error naming the key of step k and the text of the failure; no step
\* after k has been called.
C4_FailedStepStopsTheRun ==
    lastOp.kind = "step_failed" =>
        LET k == lastOp.step
        IN  /\ run.pc = "idle"
            /\ result.status = "failed"
            /\ result.steps_completed = k
            /\ Len(result.outputs) = k
            /\ \A j \in 1..k :
                  /\ result.outputs[j].key = KeyOfStep(j - 1)
                  /\ wire[2 * j].ev = "reply"
                  /\ wire[2 * j].step = j - 1
                  /\ result.outputs[j].value.content = wire[2 * j].content
            /\ result.errors =
                  << <<"Step ", "step_", Str(k), "_", run.steps[k + 1].role,
                       " failed: ", lastOp.raised>> >>
            /\ \A n \in 1..Len(wire) : wire[n].step <= k

\* the third step of a run fails at the provider after two steps succeeded
C4_Witness ==
    /\ lastOp.kind = "step_failed"
    /\ lastOp.step = 2
    /\ lastOp.sendError # None
    /\ result.steps_completed = 2
    /\ Len(result.outputs) = 2
    /\ Len(run.steps) = 4

\* C5: run_workflow with a name that is not registered returns failed, zero
\* steps completed, no outputs and one error; no Agent is created and no
\* provider is called.
C5_UnknownWorkflowFailsAtOnce ==
    lastOp.kind = "run_workflow_unknown" =>
        /\ result.status = "failed"
        /\ result.steps_completed = 0
        /\ result.outputs = <<>>
        /\ Len(result.errors) = 1
        /\ agents = lastOp.agentsBefore
        /\ sends = lastOp.sendsBefore
        /\ wire = <<>>
        /\ run.pc = "idle"

C5_Witness ==
    /\ lastOp.kind = "run_workflow_unknown"
    /\ result.status = "failed"
    /\ DOMAIN agents = {}

\* C6: the provider calls of a run are made in registration order and one at
\* a time: the n-th call is the call of the n-th registered step, it follows
\* the reply of the step before, and when it is made the outputs of all
\* earlier steps are recorded.
C6_StepsRunInOrderOneAtATime ==
    \A n \in 1..Len(wire) :
        IsStepEvent(wire[n]) =>
            /\ wire[n].ev = "call" =>
                  /\ n % 2 = 1
                  /\ wire[n].step = (n - 1) \div 2
                  /\ wire[n].role = run.steps[wire[n].step + 1].role
                  /\ n > 1 => wire[n - 1].ev = "reply" /\ wire[n - 1].step = wire[n].step - 1
                  /\ \A j \in 0..(wire[n].step - 1) : HasKey(wire[n].outputs, KeyOfStep(j))
            /\ wire[n].ev \in {"reply", "error"} =>
                  /\ n % 2 = 0
                  /\ wire[n - 1].ev = "call"
                  /\ wire[n - 1].step = wire[n].step

\* the call of a second step that depends on nothing is on its way
C6_Witness ==
    /\ run.pc = "call"
    /\ run.i = 1
    /\ run.steps[2].depends_on = <<>>
    /\ Len(wire) = 3
    /\ HasKey(run.outputs, KeyOfStep(0))

\* C7: a run whose n steps all succeed returns completed, steps_completed = n,
\* no error, and n outputs, the i-th under step_<i>_<role of step i> with the
\* response of step i.
C7_CompletedRunHasAllOutputs ==
    lastOp.kind = "run_workflow_return" =>
        LET n == Len(run.steps)
        IN  /\ result.status = "completed"
            /\ result.steps_completed = n
            /\ result.errors = <<>>
            /\ Len(result.outputs) = n
            /\ \A j \in 1..n :
                  /\ result.outputs[j].key = KeyOfStep(j - 1)
                  /\ wire[2 * j].ev = "reply"
                  /\ wire[2 * j].step = j - 1
                  /\ result.outputs[j].value.content = wire[2 * j].content

C7_Witness ==
    /\ lastOp.kind = "run_workflow_return"
    /\ run.name = "feature"
    /\ result.status = "completed"
    /\ Len(result.outputs) = 4

\* the blocks of the entries of depends_on that are keys of outputs, in the
\* order of depends_on
RECURSIVE BlocksInListOrder(_, _, _)
BlocksInListOrder(depends_on, outputs, j) ==
    IF j > Len(depends_on) THEN <<>>
    ELSE (IF HasKey(outputs, depends_on[j])
          THEN <<"\n[">> \o depends_on[j] \o <<"]:\n">>
                  \o Lookup(outputs, depends_on[j]).content \o <<"\n">>
          ELSE <<>>)
         \o BlocksInListOrder(depends_on, outputs, j + 1)

PresentDeps(e) ==
    {j \in 1..Len(e.depends_on) : HasKey(e.outputs, e.depends_on[j])}

Markers == {<<>>, <<"/">>, <<"\\">>, <<"/", "\\">>, <<"\\", "/">>}
Segments == {<<".", ".">>, <<".">>, <<"a">>}
RECURSIVE JoinSegments(_)
JoinSegments(segs) ==
    IF segs = <<>> THEN <<>>
    ELSE IF Len(segs) = 1 THEN segs[1]
    ELSE segs[1] \o <<"/">> \o JoinSegments(Tail(segs))
PathArgs == {m \o JoinSegments(segs) : m \in Markers, segs \in SeqsUpTo(Segments, MaxSegs)}
Templates == {"basic", "python", "node", "empty"}
FileContents == {<<"c1">>}

\* does the path argument hold a ".." segment, does it begin with a root marker
HasDotDot(arg) == \E k \in 1..Len(split(arg, <<>>)) : split(arg, <<>>)[k] = <<".", ".">>
HasRootMarker(arg) == arg # <<>> /\ arg[1] \in {"/", "\\"}

FsInit == AgentStart /\ TplStart /\ OrchStart /\ FsStart /\ AdapterStart /\ ConcStart

\* The operation op is called with path argument arg and does out; the call,
\* what it resolved, returned and did stay on record until the caller has
\* taken the result.
FsCall(op, arg, out) ==
    /\ lastFs = NoCall
    /\ out.fs # fs => fsOps < MaxFsOps
    /\ fs' = out.fs
    /\ fsOps' = IF out.fs = fs THEN fsOps ELSE fsOps + 1
    /\ lastFs' = [kind |-> op,
                  arg |-> arg,
                  resolved |-> resolve_path(arg),
                  result |-> out.result,
                  touched |-> out.touched,
                  changed |-> out.fs # fs]
    /\ UNCHANGED <<agentVars, tplVars, orchVars, adVars, concVars>>

\* the caller has the result and is free to make the next call
take_result ==
    /\ lastFs # NoCall
    /\ lastFs' = NoCall
    /\ UNCHANGED <<fs, fsOps, agentVars, tplVars, orchVars, adVars, concVars>>

CreateProject(name, template) ==
    FsCall("create_project", name, create_project(fs, name, template))
DeleteProject(name) ==
    FsCall("delete_project", name, delete_project(fs, name))
ReadFile(path) ==
    FsCall("read_file", path, read_file(fs, path))
WriteFile(path, content) ==
    FsCall("write_file", path, write_file(fs, path, content))
AppendFile(path, content) ==
    FsCall("append_file", path, append_file(fs, path, content))
DeleteFile(path) ==
    FsCall("delete_file", path, delete_file(fs, path))
ListDirectory(path) ==
    FsCall("list_directory", path, list_directory(fs, path))
CreateDirectory(path) ==
    FsCall("create_directory", path, create_directory(fs, path))
GetTree(path, max_depth) ==
    FsCall("get_tree", path, get_tree(fs, path, max_depth))
SearchFiles(pattern, path) ==
    FsCall("search_files", path, search_files(fs, pattern, path))
Grep(term, path, pattern) ==
    FsCall("grep", path, grep(fs, term, path, pattern))

ListProjects ==
    FsCall("list_projects", <<>>, list_projects(fs))

FsNext ==
    \/ \E p \in PathArgs, t \in Templates : CreateProject(p, t)
    \/ \E p \in PathArgs : DeleteProject(p)
    \/ \E p \in PathArgs : ReadFile(p)
    \/ \E p \in PathArgs, c \in FileContents : WriteFile(p, c)
    \/ \E p \in PathArgs, c \in FileContents : AppendFile(p, c)
    \/ \E p \in PathArgs : DeleteFile(p)
    \/ \E p \in PathArgs : ListDirectory(p)
    \/ \E p \in PathArgs : CreateDirectory(p)
    \/ \E p \in PathArgs, d \in {1, 3} : GetTree(p, d)
    \/ \E p \in PathArgs : SearchFiles(<<"*">>, p)
    \/ \E p \in PathArgs : Grep("c1", p, <<"*">>)
    \/ ListProjects
    \/ take_result

SpecFs == FsInit /\ [][FsNext]_vars

(***************************************************************************)
(* Claims about the file store                                             *)
(***************************************************************************)
\* the operations that take a path argument
PathKinds == {"create_project", "delete_project", "read_file", "write_file",
              "append_file", "delete_file", "list_directory", "create_directory",
              "get_tree", "search_files", "grep"}
\* the operations that return an OperationResult
ResultKinds == {"create_project", "delete_project", "read_file", "write_file",
                "append_file", "delete_file", "create_directory"}

InsideRoot(q) == IsPrefix(workspace_root, q)
StrictlyInsideRoot(q) == InsideRoot(q) /\ Len(q) > Len(workspace_root)

\* the call on record was given a path with a ".." segment or a root marker
MarkedPathCall ==
    /\ lastFs.kind \in PathKinds
    /\ HasDotDot(lastFs.arg) \/ HasRootMarker(lastFs.arg)

\* the call on record failed with the sandbox-escape error: resolution raised
\* it, nothing was done, and the operation returned its failure value
FailedWithEscape ==
    /\ lastFs.resolved.raised
    /\ ~lastFs.changed
    /\ lastFs.touched = {}
    /\ CASE lastFs.kind \in ResultKinds ->
              lastFs.result = OperationResult(FALSE, EscapeMessage(lastFs.arg), None)
         [] lastFs.kind = "get_tree" ->
              lastFs.result = [error |-> <<"Error: ">> \o EscapeMessage(lastFs.arg)]
         [] OTHER -> lastFs.result = List({})

\* every location the call on record read, listed, wrote, created or deleted
\* is the workspace root or below it
NoIOOutsideRoot == \A t \in lastFs.touched : InsideRoot(t.path)

ReportsEscape ==
    CASE lastFs.kind \in ResultKinds ->
           lastFs.result = OperationResult(FALSE, EscapeMessage(lastFs.arg), None)
      [] lastFs.kind = "get_tree" ->
           lastFs.result = [error |-> <<"Error: ">> \o EscapeMessage(lastFs.arg)]
      [] OTHER -> \E x \in lastFs.result.list : x = EscapeMessage(lastFs.arg)

\* C11: when the path given to an operation resolves outside the workspace
\* root, the operation returns (every operation of the model returns a value,
\* none raises), the value returned reports the violation as a failure, and
\* the operation has done no file I/O and changed nothing.
C11_EscapeIsReportedAsFailureWithoutIO ==
    (lastFs.kind \in PathKinds /\ lastFs.resolved.raised) =>
        /\ ReportsEscape
        /\ lastFs.touched = {}
        /\ ~lastFs.changed

\* the path left when every leading "/" and "\" is taken off
RECURSIVE RestOfPath(_)
RestOfPath(s) ==
    IF s # <<>> /\ Head(s) \in {"/", "\\"} THEN RestOfPath(Tail(s)) ELSE s

\* the location under the workspace root that the relative path s names
NamedUnderRoot(s) == resolve(workspace_root \o Parts(s), <<>>)

\* C12: a path argument that begins with a run of "/" and "\" characters, in
\* any mix, resolves to the location under the workspace root that the rest
\* of the path names, never to a location counted from the root of the real
\* file system.
C12_RootMarkerIsRelativeToWorkspace ==
    (lastFs.kind \in PathKinds /\ HasRootMarker(lastFs.arg)) =>
        lastFs.resolved.path = NamedUnderRoot(RestOfPath(lastFs.arg))

(***************************************************************************)
(* Claims about consult_team, the Agents of the Orchestrator and the       *)
(* Agent's own operations                                                  *)
(***************************************************************************)
ConsultKinds == {"consult_team_begin", "consult_team_call", "consult_team_ok",
                 "consult_team_failed", "consult_team_return"}

\* the last member of the list of consult_team that names the role
LastMemberOf(role) ==
    CHOOSE n \in 1..Len(run.roles) :
        /\ run.roles[n] = role
        /\ \A m \in (n + 1)..Len(run.roles) : run.roles[m] # role

\* C13: consult_team asks the roles given (every Role, in the order of the
\* enumeration, when none is given) one after another in list order: the
\* provider calls of the call are those of members 1, 2, ... of the list, each
\* answered before the next is made.  When the ask of a member fails the error
\* leaves consult_team, no later member is asked and nothing is returned; when
\* all succeed the mapping returned holds, for every role asked, its response.
C13_ConsultTeamAsksInOrderAndFailsFast ==
    lastOp.kind \in ConsultKinds =>
        /\ run.given = None => run.roles = RoleList
        /\ run.given # None => run.roles = run.given
        /\ \A k \in 1..Len(wire) :
              /\ wire[k].member = (k + 1) \div 2
              /\ wire[k].role = run.roles[wire[k].member]
              /\ wire[k].ev = IF k % 2 = 1 THEN "call"
                              ELSE IF k = Len(wire) /\ lastOp.kind = "consult_team_failed"
                                                    /\ lastOp.sendError # None
                              THEN "error" ELSE "reply"
              /\ wire[k].ev = "call" => PromptOf(wire[k]) = run.prompt
        /\ lastOp.kind = "consult_team_failed" =>
              /\ lastOp.raised # None
              /\ lastOp.sendError # None => lastOp.raised = lastOp.sendError
              /\ run.pc = "idle"
              /\ result = NoResult
              /\ \A k \in 1..Len(wire) : wire[k].member <= lastOp.member
        /\ lastOp.kind = "consult_team_return" =>
              /\ Len(wire) = 2 * Len(run.roles)
              /\ result.status = "returned"
              /\ \A i \in 1..Len(result.results) :
                    \E n \in 1..Len(run.roles) : run.roles[n] = result.results[i].key
              /\ \A n \in 1..Len(run.roles) :
                    /\ HasKey(result.results, run.roles[n])
                    /\ Lookup(result.results, run.roles[n]) =
                          AgentResponse(wire[2 * LastMemberOf(run.roles[n])].content)

\* the second of two roles failed: the first was asked and answered, the
\* third member was not asked
C13_Witness ==
    /\ lastOp.kind = "consult_team_failed"
    /\ lastOp.member = 2
    /\ Len(run.roles) = 3
    /\ Len(wire) = 4

\* the history an Agent holds after the successful asks of turns
RECURSIVE TurnsAsHistory(_)
TurnsAsHistory(turns) ==
    IF turns = <<>> THEN <<>>
    ELSE <<Message("user", turns[1].text), Message("assistant", turns[1].content)>>
            \o TurnsAsHistory(Tail(turns))

Settings(a) == [a EXCEPT !.conversation_history = <<>>]

\* C15: clear_context(role) empties the history of the Agent of that role and
\* leaves every other Agent as it was; clear_context() empties the history of
\* every Agent there is.  Neither constructs or removes an Agent, and the
\* registered workflows and what an Agent holds besides its history (system
\* prompt, model, limits, client) stay as they were.
C15_ClearContextClearsOnlyTheHistoriesNamed ==
    [][\A role \in Role \cup {None} :
          clear_context(role) =>
            /\ DOMAIN agents' = DOMAIN agents
            /\ workflows' = workflows
            /\ \A r \in DOMAIN agents :
                  /\ Settings(agents'[r]) = Settings(agents[r])
                  /\ IF role = None \/ role = r
                     THEN agents'[r].conversation_history = <<>>
                     ELSE agents'[r] = agents[r]]_vars

\* consult_team gave two Agents a turn each, then the history of one of them
\* was cleared
C15_Witness ==
    /\ lastOp.kind = "clear_context"
    /\ Len(wire) = 4
    /\ \A k \in {2, 4} : wire[k].ev = "reply" /\ wire[k].role \in {"qa", "ba"}
    /\ wire[2].role # wire[4].role
    /\ agents["qa"].conversation_history = <<>>
    /\ Len(agents["ba"].conversation_history) = 2

\* C16: clear_history leaves the history empty and everything else the Agent
\* holds (system prompt, model, max_tokens, temperature, the client) as it
\* was; on an Agent whose history is empty, as it is right after a
\* clear_history, it changes nothing at all.  (clear_history has no way to
\* fail: every call returns.)
C16_ClearHistoryEmptiesOnlyTheHistory ==
    [][clear_history =>
          /\ agent'.conversation_history = <<>>
          /\ Settings(agent') = Settings(agent)
          /\ agent.conversation_history = <<>> => agent' = agent
          /\ BaseAgent_clear_history(agent') = agent']_vars

\* clear_history was called on an Agent with a client and a changed prompt
C16_Witness ==
    /\ last.kind = "clear_history"
    /\ agent.client # None
    /\ agent.system_prompt # "sp1"
    /\ agent.conversation_history = <<>>
    /\ chats > 0

(***************************************************************************)
(* agents/claude_agent.py, gpt_agent.py, gemini_agent.py: one Agent of a   *)
(* provider, what it transmits and what it returns.                        *)
(* Texts are sequences of tokens; <<>> is the empty string.  An Optional   *)
(* argument or attribute is Nothing (None, absent) or Some(v).  A dict is  *)
(* a function on its keys; EmptyDict is {}.                                *)
(***************************************************************************)
Nothing == <<>>
Some(v) == <<v>>
EmptyDict == [k \in {} |-> 0]

Provider == {"anthropic", "openai", "google"}

\* Settings: default_max_tokens and default_temperature (in tenths)
get_settings == [default_max_tokens |-> 8192, default_temperature |-> 7]

\* agent_class(model=..., system_prompt=..., max_tokens=..., temperature=...):
\* BaseAgent.__init__ run by the class PROVIDER_AGENTS has for the provider
PROVIDER_AGENTS(provider, model, system_prompt, max_tokens, temperature) ==
    [provider |-> provider,
     model |-> model,
     system_prompt |-> system_prompt,
     max_tokens |-> max_tokens,
     temperature |-> temperature,
     conversation_history |-> <<>>,
     client |-> Nothing]

\* `x or default` on an Optional[int]: None and 0 both give the default
IntOr(x, default) == IF x = Nothing \/ x = Some(0) THEN default ELSE x[1]

\* `x or default` on an Optional[str]: None and "" both give the default
StrOr(x, default) == IF x = Nothing \/ x = Some(<<>>) THEN default ELSE x[1]

\* `x if x is not None else default`
IfNotNone(x, default) == IF x # Nothing THEN x[1] ELSE default

\* AgentFactory.create_by_provider; system_prompt is a str, the other two Optional
create_by_provider(provider, model, system_prompt, max_tokens, temperature) ==
    PROVIDER_AGENTS(provider, model, system_prompt,
                    IntOr(max_tokens, get_settings.default_max_tokens),
                    IfNotNone(temperature, get_settings.default_temperature))

\* AgentFactory.create_by_role(role, system_prompt, max_tokens, temperature)
create_by_role_overriding(role, system_prompt, max_tokens, temperature) ==
    create_by_provider(ROLE_PROVIDERS[role],
                       model_map[role],
                       StrOr(system_prompt, get_role_config[role].system_prompt),
                       Some(IntOr(max_tokens, get_role_config[role].max_tokens)),
                       Some(IfNotNone(temperature, get_role_config[role].temperature)))

\* self.model.endswith("-thinking") on the model names of the model
ThinkingModels == {"claude-3-7-sonnet-thinking"}
endswith_thinking(model) == model \in ThinkingModels

\* _initialize_client of the three classes: Anthropic(api_key), OpenAI(api_key),
\* and GenerativeModel(model_name, generation_config, system_instruction), which
\* keeps the values the Agent has at that moment
initialize_client(a) ==
    IF a.provider = "google"
    THEN [a EXCEPT !.client =
            Some([model_name |-> a.model,
                  generation_config |-> [max_output_tokens |-> a.max_tokens,
                                         temperature |-> a.temperature],
                  system_instruction |-> IF a.system_prompt # <<>>
                                         THEN Some(a.system_prompt) ELSE Nothing])]
    ELSE [a EXCEPT !.client = Some([api |-> a.provider])]

\* {"role": msg.role.value, "content": msg.content}
RoleContent(msg) == [role |-> msg.role, content |-> msg.content]

IsNotSystem(msg) == msg.role # "system"

\* ClaudeAgent._send_request, lines 48-69: the keyword arguments of messages.create
claude_request_params(a, messages) ==
    [model |-> a.model,
     max_tokens |-> a.max_tokens,
     messages |-> LET kept == SelectSeq(messages, IsNotSystem)
                  IN  [i \in 1..Len(kept) |-> RoleContent(kept[i])]]
    @@ (IF ~endswith_thinking(a.model) THEN [temperature |-> a.temperature] ELSE EmptyDict)
    @@ (IF a.system_prompt # <<>> THEN [system |-> a.system_prompt] ELSE EmptyDict)

\* GPTAgent._send_request, lines 44-68: the keyword arguments of chat.completions.create
gpt_request_params(a, messages) ==
    [model |-> a.model,
     max_completion_tokens |-> a.max_tokens,
     temperature |-> a.temperature,
     messages |-> (IF a.system_prompt # <<>>
                   THEN <<[role |-> "system", content |-> a.system_prompt]>> ELSE <<>>)
                  \o (LET kept == SelectSeq(messages, IsNotSystem)
                      IN  [i \in 1..Len(kept) |-> RoleContent(kept[i])])]

\* GeminiAgent._send_request, lines 63-70: one entry of gemini_history
GeminiTurn(msg) ==
    [role |-> IF msg.role = "user" THEN "user" ELSE "model", parts |-> <<msg.content>>]

\* GeminiAgent._send_request, lines 63-77: the model object the chat is started
\* on, the history given to start_chat and the text given to send_message
gemini_request_params(a, messages) ==
    [client |-> a.client[1],
     history |-> IF messages = <<>> THEN <<>>
                 ELSE [i \in 1..(Len(messages) - 1) |-> GeminiTurn(messages[i])],
     message |-> IF messages # <<>> THEN messages[Len(messages)].content ELSE <<>>]

request_params(a, messages) ==
    CASE a.provider = "anthropic" -> claude_request_params(a, messages)
      [] a.provider = "openai" -> gpt_request_params(a, messages)
      [] a.provider = "google" -> gemini_request_params(a, messages)

\* AgentResponse(content, model, provider, usage, finish_reason, raw_response)
ProviderResponse(content, provider, usage) ==
    [content |-> content, provider |-> provider, usage |-> usage]

\* The provider's answer to one request: an error raised by the client, or a
\* reply with its text and its usage block.  The block is Nothing when the
\* reply has none, and holds the counters the reply does have:
\*   input   input_tokens, prompt_tokens, prompt_token_count
\*   output  output_tokens, completion_tokens, candidates_token_count
\*   total   total_tokens, total_token_count (the Anthropic reply has none)
UsageBlocks ==
    {[input |-> 3, output |-> 5, total |-> 8],
     [input |-> 3, output |-> 5],
     [output |-> 5, total |-> 8]}

ProviderReplies ==
    [ok : {TRUE}, content : {<<"r1">>}, usage : {Nothing} \cup {Some(u) : u \in UsageBlocks}]
        \cup [ok : {FALSE}, error : {"NetworkError"}]

\* getattr(block, name, 0)
GetAttrOr0(block, name) == IF name \in DOMAIN block THEN block[name] ELSE 0

\* ClaudeAgent._send_request, lines 81-92: reading an attribute of a missing
\* block, or a missing attribute, raises AttributeError
claude_response(a, reply) ==
    IF reply.usage = Nothing \/ ~({"input", "output"} \subseteq DOMAIN reply.usage[1])
    THEN [raised |-> "AttributeError", response |-> Nothing]
    ELSE [raised |-> None,
          response |-> Some(ProviderResponse(reply.content, "anthropic",
                          [input_tokens |-> reply.usage[1].input,
                           output_tokens |-> reply.usage[1].output,
                           total_tokens |-> reply.usage[1].input + reply.usage[1].output]))]

\* GPTAgent._send_request, lines 74-91
gpt_response(a, reply) ==
    IF reply.usage = Nothing
    THEN [raised |-> None,
          response |-> Some(ProviderResponse(reply.content, "openai", EmptyDict))]
    ELSE IF ~({"input", "output", "total"} \subseteq DOMAIN reply.usage[1])
    THEN [raised |-> "AttributeError", response |-> Nothing]
    ELSE [raised |-> None,
          response |-> Some(ProviderResponse(reply.content, "openai",
                          [input_tokens |-> reply.usage[1].input,
                           output_tokens |-> reply.usage[1].output,
                           total_tokens |-> reply.usage[1].total]))]

\* GeminiAgent._send_request, lines 82-99
gemini_response(a, reply) ==
    IF reply.usage = Nothing
    THEN [raised |-> None,
          response |-> Some(ProviderResponse(reply.content, "google", EmptyDict))]
    ELSE [raised |-> None,
          response |-> Some(ProviderResponse(reply.content, "google",
                          [input_tokens |-> GetAttrOr0(reply.usage[1], "input"),
                           output_tokens |-> GetAttrOr0(reply.usage[1], "output"),
                           total_tokens |-> GetAttrOr0(reply.usage[1], "total")]))]

\* _send_request(messages) of the Agent's class, given what the provider
\* answers: the request transmitted (Nothing when none was), the error raised
\* (None when it returns) and the AgentResponse returned.  Without a client
\* the attribute access on None raises before anything is transmitted.
send_request(a, messages, reply) ==
    IF a.client = Nothing
    THEN [request |-> Nothing, raised |-> "AttributeError", response |-> Nothing]
    ELSE IF ~reply.ok
    THEN [request |-> Some(request_params(a, messages)),
          raised |-> reply.error, response |-> Nothing]
    ELSE [request |-> Some(request_params(a, messages))]
         @@ (CASE a.provider = "anthropic" -> claude_response(a, reply)
               [] a.provider = "openai" -> gpt_response(a, reply)
               [] a.provider = "google" -> gemini_response(a, reply))

\* BaseAgent.chat run on an Agent of a provider: initErr is the error
\* _initialize_client raises (None when it succeeds)
provider_chat(a, user_message, include_history, initErr, reply) ==
    IF a.client = Nothing /\ initErr # None
    THEN [agent |-> a, messages |-> <<>>, request |-> Nothing,
          raised |-> initErr, response |-> Nothing]
    ELSE LET a1 == IF a.client = Nothing THEN initialize_client(a) ELSE a
             messages == BuildMessages(a1, user_message, include_history)
             r == send_request(a1, messages, reply)
         IN  [agent |-> IF r.raised = None
                        THEN [a1 EXCEPT !.conversation_history =
                                 AppendTurn(@, user_message, r.response[1])]
                        ELSE a1,
              messages |-> messages, request |-> r.request,
              raised |-> r.raised, response |-> r.response]

(***************************************************************************)
(* Specification SpecAdapter: one Agent made by AgentFactory.create_by_role *)
(* or create_by_provider, then chat, _send_request, set_system_prompt and  *)
(* clear_history called on it in any order.  Each call is followed by the  *)
(* caller taking its outcome.                                              *)
(***************************************************************************)
MaxAdOps == 3          \* operations called on the Agent of a provider
MaxMsgs == 2           \* messages of a list handed to _send_request

AdapterRoles == {"senior_dev", "qa", "ba"}
PromptOverrides == {Nothing, Some(<<>>), Some(<<"sp1">>)}
MaxTokensOverrides == {Nothing, Some(0), Some(1024)}
TemperatureOverrides == {Nothing, Some(0)}
AdapterPrompts == {<<>>, <<"sp2">>}
AdapterTexts == {<<"t1">>}

\* the message lists of at most MaxMsgs messages
RECURSIVE MessageLists(_)
MessageLists(n) ==
    IF n = 0 THEN {<<>>}
    ELSE LET shorter == MessageLists(n - 1)
         IN  shorter \cup {Append(l, Message(r, <<r>>)) : l \in shorter, r \in MessageRole}

AdIdle(prompt_set) == [kind |-> "none", prompt_set |-> prompt_set]

AdapterInit == AgentStart /\ TplStart /\ OrchStart /\ FsStart /\ AdapterStart /\ ConcStart

\* AgentFactory.create_by_role(role, system_prompt, max_tokens, temperature)
CreateByRole ==
    \E role \in AdapterRoles, sp \in PromptOverrides,
       mt \in MaxTokensOverrides, t \in TemperatureOverrides :
        /\ adapter.provider = None
        /\ adapter' = create_by_role_overriding(role, sp, mt, t)
        /\ lastAd' = [kind |-> "create_by_role", prompt_set |-> FALSE, role |-> role,
                      system_prompt |-> sp, max_tokens |-> mt, temperature |-> t]
        /\ UNCHANGED <<adOps, agentVars, tplVars, orchVars, fsVars, concVars>>

\* AgentFactory.create_by_provider(provider, model)
CreateByProvider ==
    \E provider \in Provider, model \in ThinkingModels :
        /\ adapter.provider = None
        /\ adapter' = create_by_provider(provider, model, <<>>, Nothing, Nothing)
        /\ lastAd' = [kind |-> "create_by_provider", prompt_set |-> FALSE,
                      provider |-> provider, model |-> model]
        /\ UNCHANGED <<adOps, agentVars, tplVars, orchVars, fsVars, concVars>>

\* the caller takes the outcome of the last call
take_response ==
    /\ lastAd.kind # "none"
    /\ lastAd' = AdIdle(lastAd.prompt_set)
    /\ UNCHANGED <<adapter, adOps, agentVars, tplVars, orchVars, fsVars, concVars>>

AdCall ==
    /\ adapter.provider # None
    /\ lastAd.kind = "none"
    /\ adOps < MaxAdOps
    /\ adOps' = adOps + 1
    /\ UNCHANGED <<agentVars, tplVars, orchVars, fsVars, concVars>>

\* agent.chat(user_message, include_history)
AdapterChat ==
    \E text \in AdapterTexts, include_history \in BOOLEAN,
       initErr \in {None, "AuthError"}, reply \in ProviderReplies :
        LET c == provider_chat(adapter, text, include_history, initErr, reply)
        IN  /\ AdCall
            /\ adapter.client = Nothing \/ initErr = None
            /\ adapter' = c.agent
            /\ lastAd' = [kind |-> "chat", prompt_set |-> lastAd.prompt_set,
                          messages |-> c.messages, reply |-> reply, request |-> c.request,
                          raised |-> c.raised, response |-> c.response]

\* agent._send_request(messages) with a message list of the caller
AdapterSendRequest ==
    \E messages \in MessageLists(MaxMsgs), reply \in ProviderReplies :
        LET r == send_request(adapter, messages, reply)
        IN  /\ AdCall
            /\ adapter.client = Nothing => reply = CHOOSE x \in ProviderReplies : ~x.ok
            /\ lastAd' = [kind |-> "send_request", prompt_set |-> lastAd.prompt_set,
                          messages |-> messages, reply |-> reply, request |-> r.request,
                          raised |-> r.raised, response |-> r.response]
            /\ UNCHANGED adapter

\* agent.set_system_prompt(prompt)
AdapterSetSystemPrompt ==
    \E prompt \in AdapterPrompts :
        /\ AdCall
        /\ adapter' = BaseAgent_set_system_prompt(adapter, prompt)
        /\ lastAd' = [kind |-> "set_system_prompt", prompt_set |-> TRUE, prompt |-> prompt]

\* agent.clear_history()
AdapterClearHistory ==
    /\ AdCall
    /\ adapter' = BaseAgent_clear_history(adapter)
    /\ lastAd' = [kind |-> "clear_history", prompt_set |-> lastAd.prompt_set]

AdapterNext ==
    \/ CreateByRole
    \/ CreateByProvider
    \/ take_response
    \/ AdapterChat
    \/ AdapterSendRequest
    \/ AdapterSetSystemPrompt
    \/ AdapterClearHistory

SpecAdapter == AdapterInit /\ [][AdapterNext]_vars

(***************************************************************************)
(* Claims about the Agent of a provider                                    *)
(***************************************************************************)
\* the system prompt a request carries in the provider's system-instruction
\* channel: the "system" argument (Anthropic), the leading "system" message
\* (OpenAI), the system_instruction of the model object (Google)
SystemChannel(provider, request) ==
    CASE provider = "anthropic" ->
            IF "system" \in DOMAIN request THEN Some(request.system) ELSE Nothing
      [] provider = "openai" ->
            IF request.messages # <<>> /\ request.messages[1].role = "system"
            THEN Some(request.messages[1].content) ELSE Nothing
      [] provider = "google" -> request.client.system_instruction

\* a system prompt as the channel carries it: an empty prompt is not sent
AsSystemPrompt(text) == IF text # <<>> THEN Some(text) ELSE Nothing

\* a chat has transmitted a request
ChatTransmitted == lastAd.kind = "chat" /\ lastAd.request # Nothing

\* C17: once set_system_prompt(text) has been called on an Agent of any
\* provider, every chat that transmits a request transmits, as the system
\* prompt, the text the Agent holds (the last one set), also when the prompt
\* was set after the client was initialized by an earlier chat.
C17_ChatTransmitsTheSystemPromptLastSet ==
    (ChatTransmitted /\ lastAd.prompt_set)
        => SystemChannel(adapter.provider, lastAd.request[1])
               = AsSystemPrompt(adapter.system_prompt)

\* the value an Agent made by create_by_role is to carry for one setting: the
\* override when the caller supplied one, the RoleConfig default when not
OverrideOrDefault(override, default) ==
    IF override = Nothing THEN default ELSE override[1]

\* C18: an Agent made by create_by_role carries, for each of system prompt,
\* max tokens and temperature, the override the caller supplied, and the
\* RoleConfig default of the role only when no override was supplied.
C18_CreateByRoleCarriesEverySuppliedOverride ==
    lastAd.kind = "create_by_role" =>
        /\ adapter.system_prompt =
              OverrideOrDefault(lastAd.system_prompt, get_role_config[lastAd.role].system_prompt)
        /\ adapter.max_tokens =
              OverrideOrDefault(lastAd.max_tokens, get_role_config[lastAd.role].max_tokens)
        /\ adapter.temperature =
              OverrideOrDefault(lastAd.temperature, get_role_config[lastAd.role].temperature)

\* the contents of the turns a request carries outside the system-instruction
\* channel, oldest first: the messages (Anthropic), the messages after the
\* leading system-prompt message (OpenAI), the history followed by the text
\* sent with send_message (Google)
ContentOf(turn) == turn.content
PartOf(turn) == turn.parts[1]

TransmittedTurns(provider, request) ==
    CASE provider = "anthropic" ->
            [i \in 1..Len(request.messages) |-> ContentOf(request.messages[i])]
      [] provider = "openai" ->
            LET turns == IF SystemChannel(provider, request) # Nothing
                         THEN Tail(request.messages) ELSE request.messages
            IN  [i \in 1..Len(turns) |-> ContentOf(turns[i])]
      [] provider = "google" ->
            [i \in 1..Len(request.history) |-> PartOf(request.history[i])]
                \o <<request.message>>

\* the contents of the SYSTEM-role messages of a message list;
\* in the lists of the model no other message has such a content
SystemContents(messages) ==
    {messages[i].content : i \in {j \in 1..Len(messages) : messages[j].role = "system"}}

\* a message list has been handed to _send_request and a request was transmitted
RequestTransmitted ==
    lastAd.kind \in {"chat", "send_request"} /\ lastAd.request # Nothing

\* C19: whatever message list an adapter is given, no SYSTEM-role message of
\* the list is among the turns of the request it transmits, under any role
\* label; the Agent's system prompt is not among the turns either.
C19_SystemMessagesAreDroppedFromTheTurns ==
    RequestTransmitted =>
        \A i \in 1..Len(TransmittedTurns(adapter.provider, lastAd.request[1])) :
            LET content == TransmittedTurns(adapter.provider, lastAd.request[1])[i]
            IN  /\ content \notin SystemContents(lastAd.messages)
                /\ adapter.system_prompt # <<>> => content # adapter.system_prompt

\* the usage record an AgentResponse is to carry for a reply: each counter of
\* the reply, 0 for a counter or a block the reply does not have; the
\* Anthropic reply has no total, which is the sum of the other two
CounterOr0(usage, name) ==
    IF usage # Nothing /\ name \in DOMAIN usage[1] THEN usage[1][name] ELSE 0

NormalizedUsage(provider, usage) ==
    [input_tokens |-> CounterOr0(usage, "input"),
     output_tokens |-> CounterOr0(usage, "output"),
     total_tokens |-> IF provider = "anthropic"
                      THEN CounterOr0(usage, "input") + CounterOr0(usage, "output")
                      ELSE CounterOr0(usage, "total")]

\* the provider has answered a transmitted request with a reply
ReplyReceived == RequestTransmitted /\ lastAd.reply.ok

\* C20: when the provider answers a request, the call returns an AgentResponse
\* whose usage record has the three counters input_tokens, output_tokens and
\* total_tokens, with 0 for every counter (or whole usage block) missing from
\* the reply; a missing counter or block does not make the call fail.
C20_UsageHasThreeCountersDefaultingToZero ==
    ReplyReceived =>
        /\ lastAd.raised = None
        /\ lastAd.response # Nothing
        /\ DOMAIN lastAd.response[1].usage = {"input_tokens", "output_tokens", "total_tokens"}
        /\ lastAd.response[1].usage = NormalizedUsage(adapter.provider, lastAd.reply.usage)

\* the sampling temperature a request carries: the "temperature" argument
\* (Anthropic, OpenAI), the generation_config of the model object (Google);
\* Nothing when the request has no such parameter
TemperatureSent(provider, request) ==
    CASE provider \in {"anthropic", "openai"} ->
            IF "temperature" \in DOMAIN request THEN Some(request.temperature) ELSE Nothing
      [] provider = "google" -> Some(request.client.generation_config.temperature)

\* C21: whatever the adapter, a request of an Agent whose model identifier
\* indicates a variant without sampling temperature (it ends with "-thinking")
\* has no temperature parameter, and a request of an Agent of any other model
\* carries the Agent's temperature.
C21_TemperatureIsOmittedForThinkingModels ==
    RequestTransmitted =>
        TemperatureSent(adapter.provider, lastAd.request[1]) =
            IF endswith_thinking(adapter.model) THEN Nothing ELSE Some(adapter.temperature)

(***************************************************************************)
(* Claims about projects and files of the file store                       *)
(***************************************************************************)
\* the entries the python template is to leave in the project directory
PythonEntries ==
    {<<"src">>, <<"tests">>, <<"README.md">>, <<".", "gitignore">>, <<"requirements.txt">>}

\* the names list_directory reports for a directory of a file store
ListedNames(f, dir_path) == {e.name : e \in list_directory(f, dir_path).result.list}

\* the project name is one path segment naming a visible directory directly
\* below the workspace root: no separator, no root marker, no leading "."
PlainName(name) ==
    /\ ~resolve_path(name).raised
    /\ resolve_path(name).path = workspace_root \o <<name>>
    /\ ~IsHidden(name)

\* the step is a call create_project(name, "python") that reports success;
\* name is lastFs'.arg
PythonProjectCreated ==
    /\ lastFs = NoCall
    /\ lastFs'.kind = "create_project"
    /\ lastFs'.result = create_project(fs, lastFs'.arg, "python").result
    /\ fs' = create_project(fs, lastFs'.arg, "python").fs
    /\ lastFs'.result.success

Absent(f, arg) == ~resolve_path(arg).raised /\ ~Exists(f, resolve_path(arg).path)
Present(f, arg) == ~resolve_path(arg).raised /\ Exists(f, resolve_path(arg).path)

\* the step is a call of read_file, delete_file or delete_project with a path
\* where nothing is, or of create_project with a path where something is
ExpectedAbsence ==
    /\ lastFs = NoCall
    /\ \/ /\ lastFs'.kind \in {"read_file", "delete_file", "delete_project"}
          /\ Absent(fs, lastFs'.arg)
       \/ /\ lastFs'.kind = "create_project"
          /\ Present(fs, lastFs'.arg)

\* the step returns a failure result without data and changes no file or directory
FailsWithoutDataOrChange ==
    /\ DOMAIN lastFs'.result = {"success", "message", "data"}
    /\ lastFs'.result.success = FALSE
    /\ lastFs'.result.data = None
    /\ fs' = fs

\* C23: read_file and delete_file of a missing file, delete_project of a
\* missing project and create_project of a name that exists return a result
\* with success = false and no data, raise nothing, and leave every file and
\* directory of the workspace as it was.
C23_ExpectedAbsenceIsAFailureResultWithoutChange ==
    [][ExpectedAbsence => FailsWithoutDataOrChange]_vars

\* create_project has been refused for a project that exists below the root
C23_Witness ==
    /\ lastFs.kind = "create_project"
    /\ ~lastFs.resolved.raised
    /\ lastFs.resolved.path # workspace_root
    /\ lastFs.result.success = FALSE
    /\ lastFs.result.message = <<"Project '">> \o lastFs.arg \o <<"' already exists">>

(***************************************************************************)
(* Claims about runs of workflows                                          *)
(***************************************************************************)
\* the last step of the Orchestrator ended a call of run_workflow
RunEnded == lastOp.kind \in {"run_workflow_unknown", "step_failed", "run_workflow_return"}

\* a call of run_workflow is between its first line and its return
RunInProgress == run.pc \in {"loop", "call"}

StepCalls == {k \in 1..Len(wire) : wire[k].ev = "call" /\ "step" \in DOMAIN wire[k]}

\* C25: the request of every step of run_workflow is one user message whose
\* text is the prompt assembled for the step from its instruction, the
\* context and the outputs its depends_on names; the history of the role's
\* Agent is not in the request.
C25_StepRequestIsTheAssembledPromptAlone ==
    \A k \in StepCalls :
        wire[k].messages =
            <<Message("user", AssemblePrompt(StepAt(run.steps, wire[k].step),
                                             run.context, wire[k].outputs).prompt)>>

\* a step is calling the provider while the Agent of its role holds the turns
\* of an earlier step
C25_Witness ==
    /\ run.pc = "call"
    /\ wire # <<>>
    /\ wire[Len(wire)].ev = "call"
    /\ agents[wire[Len(wire)].role].conversation_history # <<>>

(***************************************************************************)
(* Claims about the provider client of one Agent                           *)
(***************************************************************************)
\* the step is a call of chat on the Agent
ChatStep == chats' = chats + 1

\* C26 as stated: over any sequence of chat, clear_history and
\* set_system_prompt calls on one Agent, the first chat call initializes the
\* client and every later chat call does not initialize again.
C26_OnlyTheFirstChatInitializes ==
    [][ChatStep => last'.inits = (IF chats = 0 THEN 1 ELSE 0)]_vars

\* C26 amended: a client once made is kept by every later call (chat, failed
\* or not, clear_history, set_system_prompt); a chat call initializes exactly
\* when the Agent has no client, before it sends; when that initialization
\* succeeds the Agent has a client from then on, and when it fails nothing is
\* sent and the Agent is left without client, so that the next chat call
\* initializes again.
C26_ClientIsMadeOnceAndKept ==
    [][/\ agent.client # None => agent'.client = agent.client
       /\ ChatStep =>
             /\ last'.inits = (IF agent.client = None THEN 1 ELSE 0)
             /\ last'.sends = 1 => agent'.client # None
             /\ agent'.client = None => (last'.sends = 0 /\ last'.raised # None)]_vars

\* a chat call has reused the client after an earlier chat call
C26_Witness ==
    /\ last.kind = "chat"
    /\ chats >= 2
    /\ last.inits = 0
    /\ last.sends = 1

(***************************************************************************)
(* Specification SpecConc: BaseAgent.chat called on one Agent from two     *)
(* threads.  chat takes no lock, so the threads interleave between the     *)
(* statements of chat; each action is one statement of one thread.         *)
(***************************************************************************)
MaxConcCalls == 3      \* chat calls entered on the shared Agent

\* one entry appended to the history, lines 158 and 159-161
append_userSkipped(history, user_message) == history

append_user(history, user_message) == Append(history, Message("user", user_message))

append_assistant(history, response) ==
    Append(history, Message("assistant", response.content))

ConcInit == AgentStart /\ TplStart /\ OrchStart /\ FsStart /\ AdapterStart /\ ConcStart

ConcStep(t, local) ==
    /\ threads' = [threads EXCEPT ![t] = local]
    /\ UNCHANGED <<agentVars, tplVars, orchVars, fsVars, adVars>>

\* thread t calls agent.chat(user_message, include_history)
conc_chat(t, user_message, include_history) ==
    /\ threads[t].pc = "idle"
    /\ started < MaxConcCalls
    /\ started' = started + 1
    /\ overlapped' = (overlapped \/ \E u \in Threads \ {t} : threads[u].pc # "idle")
    /\ ConcStep(t, [pc |-> "entered", user_message |-> user_message,
                    include_history |-> include_history])
    /\ UNCHANGED shared

\* line 140: if self._client is None
conc_test_client(t) ==
    /\ threads[t].pc = "entered"
    /\ ConcStep(t, [threads[t] EXCEPT !.pc = IF shared.client = None
                                             THEN "initialize" ELSE "build"])
    /\ UNCHANGED <<shared, started, overlapped>>

\* line 141: self._initialize_client() sets the client or raises
conc_initialize_client(t, initErr) ==
    /\ threads[t].pc = "initialize"
    /\ IF initErr # None
       THEN /\ ConcStep(t, ThreadIdle)
            /\ UNCHANGED shared
       ELSE /\ ConcStep(t, [threads[t] EXCEPT !.pc = "build"])
            /\ shared' = [shared EXCEPT !.client = "client"]
    /\ UNCHANGED <<started, overlapped>>

\* lines 144-155: the message list is built from the history as it is now
\* and the request is on its way
conc_build_messages(t) ==
    /\ threads[t].pc = "build"
    /\ ConcStep(t, [pc |-> "send", user_message |-> threads[t].user_message,
                    messages |-> BuildMessages(shared, threads[t].user_message,
                                               threads[t].include_history)])
    /\ UNCHANGED <<shared, started, overlapped>>

\* line 155: _send_request returns the response or raises
conc_send_request(t, reply) ==
    /\ threads[t].pc = "send"
    /\ IF reply.ok
       THEN ConcStep(t, [pc |-> "append_user", user_message |-> threads[t].user_message,
                         response |-> AgentResponse(reply.content)])
       ELSE ConcStep(t, ThreadIdle)
    /\ UNCHANGED <<shared, started, overlapped>>

\* line 158: self.conversation_history.append(user_msg)
conc_append_user(t) ==
    /\ threads[t].pc = "append_user"
    /\ shared' = [shared EXCEPT !.conversation_history =
                                    append_user(@, threads[t].user_message)]
    /\ ConcStep(t, [threads[t] EXCEPT !.pc = "append_assistant"])
    /\ UNCHANGED <<started, overlapped>>

\* lines 159-163: the assistant entry is appended and chat returns
conc_append_assistant(t) ==
    /\ threads[t].pc = "append_assistant"
    /\ shared' = [shared EXCEPT !.conversation_history =
                                    append_assistant(@, threads[t].response)]
    /\ ConcStep(t, ThreadIdle)
    /\ UNCHANGED <<started, overlapped>>

ConcNext ==
    \/ \E t \in Threads, h \in BOOLEAN : conc_chat(t, <<"t", Str(t)>>, h)
    \/ \E t \in Threads : conc_test_client(t)
    \/ \E t \in Threads, e \in InitErrors : conc_initialize_client(t, e)
    \/ \E t \in Threads : conc_build_messages(t)
    \/ \E t \in Threads, y \in OrchReplies(started) : conc_send_request(t, y)
    \/ \E t \in Threads : conc_append_user(t)
    \/ \E t \in Threads : conc_append_assistant(t)

SpecConc == ConcInit /\ [][ConcNext]_vars

(***************************************************************************)
(* Claims about concurrent callers                                         *)
(***************************************************************************)
\* the history alternates user and assistant entries, beginning with a user entry
Alternates(history) ==
    \A k \in 1..Len(history) :
        history[k].role = IF k % 2 = 1 THEN "user" ELSE "assistant"

\* two user entries are next to each other
AdjacentUserEntries(history) ==
    \E k \in 1..(Len(history) - 1) :
        history[k].role = "user" /\ history[k + 1].role = "user"

\* C27: as long as no chat call on the Agent was entered while another was
\* running, the history alternates user and assistant entries; chat takes no
\* lock, and when two calls overlap a state is reached in which both calls
\* have returned and two user entries are adjacent (C27_Witness).
C27_SerializedCallsKeepTheAlternation ==
    ~overlapped => Alternates(shared.conversation_history)

\* two overlapping chat calls have returned and left two adjacent user entries
C27_Witness ==
    /\ overlapped
    /\ \A t \in Threads : threads[t].pc = "idle"
    /\ AdjacentUserEntries(shared.conversation_history)

(***************************************************************************)
(* Claims about what the file store deletes                                *)
(***************************************************************************)
\* the locations the call on record has deleted
Deleted == {t.path : t \in {d \in lastFs.touched : d.io = "delete"}}

\* C28: the workspace root directory is never removed: whatever the path
\* argument, delete_project and delete_file delete only locations strictly
\* below the workspace root, and the root is a directory in every state.
C28_WorkspaceRootIsNeverDeleted ==
    /\ IsDirAt(fs, workspace_root)
    /\ lastFs.kind \in {"delete_project", "delete_file"} =>
          \A q \in Deleted : StrictlyInsideRoot(q)

(***************************************************************************)
(* Claims about the histories a run leaves                                 *)
(***************************************************************************)
\* the last step of the Orchestrator belongs to a call of run_workflow that
\* has entered its loop
InOrAfterRun ==
    lastOp.kind \in {"run_workflow_begin", "step_call", "step_ok", "step_failed",
                     "run_workflow_return"}

\* the steps of the role that have succeeded in the run: those before step run.i
SucceededSteps(role) == {j \in 0..(run.i - 1) : StepAt(run.steps, j).role = role}

\* C29: during and after a run of a workflow, the history of each role's
\* Agent is longer than at the start of the run by exactly two entries for
\* every step of that role that has succeeded; when the run fails at step k
\* the entries of steps 0..k-1 stay and step k has added none.
C29_RunLeavesTwoEntriesPerSucceededStep ==
    InOrAfterRun =>
        \A role \in Role :
            HistoryLen(role) = run.lenBefore[role] + 2 * Cardinality(SucceededSteps(role))

\* a run has failed after its first step and an Agent keeps the entries of
\* the steps that succeeded
C29_Witness ==
    /\ lastOp.kind = "step_failed"
    /\ lastOp.step > 0
    /\ \E role \in Role : HistoryLen(role) >= run.lenBefore[role] + 2

(***************************************************************************)
(* Claims about the built-in workflows                                     *)
(***************************************************************************)
\* the built-in workflows with the number of their steps
BuiltInSteps ==
    [n \in {"feature", "review", "bugfix", "architecture"} |->
        CASE n = "feature" -> 4 [] n = "review" -> 2 [] n = "bugfix" -> 3
          [] n = "architecture" -> 3]

\* every depends_on entry of step i is the key of a strictly earlier step
DependsOnEarlierSteps(steps, i) ==
    LET deps == StepAt(steps, i).depends_on
    IN  \A d \in 1..Len(deps) :
            \E j \in 0..(i - 1) : deps[d] = StepName(j, StepAt(steps, j).role)

====
